---- MODULE Spec2Model ----
(***************************************************************************)
(* Route geometry assembly of action-scripts/update-routes.js: stitchWays, *)
(* projectPointToLineString, processAngkotStops, processRoute and the main *)
(* loop.                                                                   *)
(*                                                                         *)
(* Numbers.  JavaScript numbers are modelled as exact rationals <<n, d>>   *)
(* (d > 0, lowest terms).  A coordinate is <<lon, lat>>, as in the code.   *)
(* The unit of a coordinate is the arc of 250 m on the Earth of radius     *)
(* 6371e3 m (0.0022483 degrees); every input lies within a few units of    *)
(* lon = lat = 0, where the Haversine distance of two points differs from  *)
(* 250 m * sqrt(dlon^2 + dlat^2) by less than one part in 10^6.            *)
(***************************************************************************)
EXTENDS Integers, Sequences, FiniteSets, TLC

VARIABLES
    ways,        \* stitchWays: the argument, a sequence of way elements
    i,           \* stitchWays: the loop index (0-based, as in the code)
    stitched,    \* stitchWays: the accumulated coordinates
    lastCoord,   \* stitchWays: the last accumulated coordinate, or Null
    warnings,    \* console.warn calls of stitchWays: the indices i warned about
    reversals,   \* the indices i whose coords stitchWays reversed
    spc,         \* processAngkotStops: where control is
    fullCoords,  \* processAngkotStops: the stitched route (argument)
    coordToName, \* processAngkotStops: the coordinate-to-name Map
    realStopNodes,  \* processAngkotStops: what getOrderedStops returned
    realStops,   \* processAngkotStops: the features of the real stops
    virtualStops,   \* processAngkotStops: the generated virtual stops
    genIdx,         \* processAngkotStops: i of the loop over consecutive real stops
    projectedStops, \* processAngkotStops: all stops with _projection, sorted
    cleanIdx,       \* processAngkotStops: position of the cleanup loop
    finalStops,     \* processAngkotStops: the stops kept by the cleanup loop
    lastStop,       \* processAngkotStops: the last stop kept, or Null
    mpc,            \* main: where control is
    uniqueRoutes,   \* what loadRouteData returned
    routeIdx,       \* main loop: position in uniqueRoutes (1-based, 0 before the loop)
    attempts,       \* main loop: attempts left for the current route
    success,        \* main loop: the current route was processed
    rpc,            \* processRoute: where control is
    qAttempt,       \* overpassQuery: attempt (1 .. retries) of the running query
    relation,       \* processRoute: the relation element, or Null
    waysFile,       \* ways.geojson per relation directory, Null when absent
    stopsFile,      \* stops.geojson per relation directory, Null when absent
    stopsGeoJSON,   \* processRoute: the stops document about to be written
    exitCode,       \* status of process.exit, Null while the process runs
    invocations,    \* processRoute calls for the current route
    requests,       \* axios.get calls for the current route
    outcome,        \* result of the last processRoute call for the current route
    attempted,      \* positions in uniqueRoutes processRoute was called for
    missing,        \* console.warn of getOrderedWays / getOrderedStops: the member
                    \* ids without details, since the last processRoute call
    routesFile,     \* routes.json as it is on disk, Null where it is not read
    projPoint,      \* projectPointToLineString: the point (the line is fullCoords)
    segIdx,         \* projectPointToLineString: i of the loop over segments
    minDist,        \* projectPointToLineString: least distance so far (squared)
    minIndex,       \* projectPointToLineString: segment of the least distance
    minT,           \* projectPointToLineString: t of the least distance
    run,            \* processAngkotStops: 1 in the first call, 2 in a repeated call
    firstRun,       \* the nodes and the result of the first call, or Null
    opc,            \* orderWays (fetch-route.js): where control is
    usedWays,       \* orderWays: the ids of the ways the traversal went along
    nodeKey,        \* orderWays: nodeKey of the running dfs call
    chain,          \* orderWays: chain of the running dfs call
    path            \* orderWays: the path returned, Null before

stitchVars == <<ways, i, stitched, lastCoord, warnings, reversals>>

synthVars == <<spc, fullCoords, coordToName, realStopNodes, realStops, virtualStops, genIdx,
               projectedStops, cleanIdx, finalStops, lastStop>>

mainVars == <<mpc, uniqueRoutes, routeIdx, attempts, success, rpc, qAttempt, relation,
              waysFile, stopsFile, stopsGeoJSON, exitCode, invocations, requests,
              outcome, attempted, missing, routesFile>>

projVars == <<projPoint, segIdx, minDist, minIndex, minT>>

rerunVars == <<run, firstRun>>

orderVars == <<opc, usedWays, nodeKey, chain, path>>

vars == <<stitchVars, synthVars, mainVars, projVars, rerunVars, orderVars>>

Null == <<>>

----------------------------------------------------------------------------
(* Rational arithmetic *)

Abs(x) == IF x < 0 THEN -x ELSE x

RECURSIVE GCD(_, _)
GCD(a, b) == IF b = 0 THEN a ELSE GCD(b, a % b)

Q(n, d) ==
    LET s == IF d < 0 THEN -1 ELSE 1
        g == GCD(Abs(n), Abs(d))
    IN  <<(s * n) \div g, (s * d) \div g>>

QInt(n) == <<n, 1>>
QAdd(a, b) == Q(a[1] * b[2] + b[1] * a[2], a[2] * b[2])
QSub(a, b) == Q(a[1] * b[2] - b[1] * a[2], a[2] * b[2])
QMul(a, b) == Q(a[1] * b[1], a[2] * b[2])
QDiv(a, b) == Q(a[1] * b[2], a[2] * b[1])
QLt(a, b) == a[1] * b[2] < b[1] * a[2]
QLe(a, b) == a[1] * b[2] <= b[1] * a[2]
QAbs(a) == <<Abs(a[1]), a[2]>>
QMin(a, b) == IF QLt(b, a) THEN b ELSE a
QMax(a, b) == IF QLt(a, b) THEN b ELSE a
QFloor(a) == a[1] \div a[2]

Pt(x, y) == <<QInt(x), QInt(y)>>

----------------------------------------------------------------------------
(* Sequence helpers: Array.prototype.reverse and slice(1) *)

Last(s) == s[Len(s)]
Reverse(s) == [k \in 1..Len(s) |-> s[Len(s) + 1 - k]]
Slice1(s) == IF Len(s) = 0 THEN s ELSE SubSeq(s, 2, Len(s))

----------------------------------------------------------------------------
(* areCoordsEqual and stitchWays *)

\* 1e-6 degrees is 1/TolInv units
TolInv == 2248

Tolerance == Q(1, TolInv)

\* mutant: the latitude is not compared
areCoordsEqual_LonOnly(a, b) ==
    QLt(QAbs(QSub(a[1], b[1])), Tolerance)

areCoordsEqual(a, b) ==
    /\ QLt(QAbs(QSub(a[1], b[1])), Tolerance)
    /\ QLt(QAbs(QSub(a[2], b[2])), Tolerance)

\* ways[i].geometry.map(coord => [coord.lon, coord.lat])
GeometryCoords(way) == [k \in 1..Len(way.geometry) |-> <<way.geometry[k].lon, way.geometry[k].lat>>]

\* mutant: a way is never reversed
StitchIter_NeverReverse(acc, way, idx) ==
    LET coords0 == GeometryCoords(way)
        start == coords0[1]
        end == coords0[Len(coords0)]
        matchesStart == areCoordsEqual(start, acc.lastCoord)
        matchesEnd == areCoordsEqual(end, acc.lastCoord)
        doWarn == acc.lastCoord # Null /\ ~matchesStart /\ ~matchesEnd
        coords == IF Len(acc.stitched) > 0 THEN Slice1(coords0) ELSE coords0
    IN  [stitched |-> acc.stitched \o coords,
         lastCoord |-> IF Len(coords) = 0 THEN Null ELSE coords[Len(coords)],
         warnings |-> IF doWarn THEN Append(acc.warnings, idx) ELSE acc.warnings,
         reversals |-> acc.reversals]

\* mutant: a warning whenever the first coordinate does not match
StitchIter_WarnOnReverse(acc, way, idx) ==
    LET coords0 == GeometryCoords(way)
        start == coords0[1]
        end == coords0[Len(coords0)]
        matchesStart == areCoordsEqual(start, acc.lastCoord)
        matchesEnd == areCoordsEqual(end, acc.lastCoord)
        doReverse == acc.lastCoord # Null /\ ~matchesStart /\ matchesEnd
        doWarn == acc.lastCoord # Null /\ ~matchesStart
        coords1 == IF doReverse THEN Reverse(coords0) ELSE coords0
        coords == IF Len(acc.stitched) > 0 THEN Slice1(coords1) ELSE coords1
    IN  [stitched |-> acc.stitched \o coords,
         lastCoord |-> IF Len(coords) = 0 THEN Null ELSE coords[Len(coords)],
         warnings |-> IF doWarn THEN Append(acc.warnings, idx) ELSE acc.warnings,
         reversals |-> IF doReverse THEN acc.reversals \cup {idx} ELSE acc.reversals]

\* One iteration of the for loop of stitchWays on the way at 0-based index idx.
\* acc = [stitched, lastCoord, warnings, reversals]
StitchIter(acc, way, idx) ==
    LET coords0 == GeometryCoords(way)
        start == coords0[1]
        end == coords0[Len(coords0)]
        matchesStart == areCoordsEqual(start, acc.lastCoord)
        matchesEnd == areCoordsEqual(end, acc.lastCoord)
        doReverse == acc.lastCoord # Null /\ ~matchesStart /\ matchesEnd
        doWarn == acc.lastCoord # Null /\ ~matchesStart /\ ~matchesEnd
        coords1 == IF doReverse THEN Reverse(coords0) ELSE coords0
        coords == IF Len(acc.stitched) > 0 THEN Slice1(coords1) ELSE coords1
    IN  [stitched |-> acc.stitched \o coords,
         lastCoord |-> IF Len(coords) = 0 THEN Null ELSE coords[Len(coords)],
         warnings |-> IF doWarn THEN Append(acc.warnings, idx) ELSE acc.warnings,
         reversals |-> IF doReverse THEN acc.reversals \cup {idx} ELSE acc.reversals]

StitchStart == [stitched |-> <<>>, lastCoord |-> Null, warnings |-> <<>>, reversals |-> {}]

RECURSIVE StitchFrom(_, _, _)
StitchFrom(acc, ws, idx) ==
    IF idx >= Len(ws) THEN acc
    ELSE StitchFrom(StitchIter(acc, ws[idx + 1], idx), ws, idx + 1)

\* stitchWays(ways): the returned array
stitchWays(ws) == StitchFrom(StitchStart, ws, 0).stitched

\* the console.warn calls of stitchWays(ways)
stitchWarnings(ws) == StitchFrom(StitchStart, ws, 0).warnings

----------------------------------------------------------------------------
(* haversineDistance and projectPointToLineString *)

\* Infinity: greater than every rational under QLt
Infinity == <<1, 0>>

\* The square of haversineDistance(coord1, coord2), in units of (250 m)^2.
\* Distances are only ever compared with each other and with the two spacing
\* constants, so the square decides every test of the code.
haversineDistanceSq(coord1, coord2) ==
    LET dLon == QSub(coord2[1], coord1[1])
        dLat == QSub(coord2[2], coord1[2])
    IN  QAdd(QMul(dLat, dLat), QMul(dLon, dLon))

\* mutant: a segment of length zero is skipped
ProjectIter_SkipDegenerate(acc, point, line, k) ==
    LET p1 == line[k + 1]
        p2 == line[k + 2]
        dx == QSub(p2[1], p1[1])
        dy == QSub(p2[2], p1[2])
        lenSq == QAdd(QMul(dx, dx), QMul(dy, dy))
    IN  IF lenSq = QInt(0)
        THEN acc
        ELSE LET t0 == QDiv(QAdd(QMul(QSub(point[1], p1[1]), dx),
                                 QMul(QSub(point[2], p1[2]), dy)), lenSq)
                 t == QMax(QInt(0), QMin(QInt(1), t0))
                 proj == <<QAdd(p1[1], QMul(t, dx)), QAdd(p1[2], QMul(t, dy))>>
                 dist == haversineDistanceSq(point, proj)
             IN  IF QLt(dist, acc.minDist)
                 THEN [minDist |-> dist, minIndex |-> k, minT |-> t]
                 ELSE acc

\* mutant: a later segment at the same distance replaces the best so far
ProjectIter_LastWins(acc, point, line, k) ==
    LET p1 == line[k + 1]
        p2 == line[k + 2]
        dx == QSub(p2[1], p1[1])
        dy == QSub(p2[2], p1[2])
        lenSq == QAdd(QMul(dx, dx), QMul(dy, dy))
    IN  IF lenSq = QInt(0)
        THEN LET dist == haversineDistanceSq(point, p1)
             IN  IF QLe(dist, acc.minDist)
                 THEN [minDist |-> dist, minIndex |-> k, minT |-> QInt(0)]
                 ELSE acc
        ELSE LET t0 == QDiv(QAdd(QMul(QSub(point[1], p1[1]), dx),
                                 QMul(QSub(point[2], p1[2]), dy)), lenSq)
                 t == QMax(QInt(0), QMin(QInt(1), t0))
                 proj == <<QAdd(p1[1], QMul(t, dx)), QAdd(p1[2], QMul(t, dy))>>
                 dist == haversineDistanceSq(point, proj)
             IN  IF QLe(dist, acc.minDist)
                 THEN [minDist |-> dist, minIndex |-> k, minT |-> t]
                 ELSE acc

\* One iteration of the for loop of projectPointToLineString, on the segment
\* from line[k] to line[k + 1] (0-based k).  acc = [minDist, minIndex, minT]
ProjectIter(acc, point, line, k) ==
    LET p1 == line[k + 1]
        p2 == line[k + 2]
        dx == QSub(p2[1], p1[1])
        dy == QSub(p2[2], p1[2])
        lenSq == QAdd(QMul(dx, dx), QMul(dy, dy))
    IN  IF lenSq = QInt(0)
        THEN LET dist == haversineDistanceSq(point, p1)
             IN  IF QLt(dist, acc.minDist)
                 THEN [minDist |-> dist, minIndex |-> k, minT |-> QInt(0)]
                 ELSE acc
        ELSE LET t0 == QDiv(QAdd(QMul(QSub(point[1], p1[1]), dx),
                                 QMul(QSub(point[2], p1[2]), dy)), lenSq)
                 t == QMax(QInt(0), QMin(QInt(1), t0))
                 proj == <<QAdd(p1[1], QMul(t, dx)), QAdd(p1[2], QMul(t, dy))>>
                 dist == haversineDistanceSq(point, proj)
             IN  IF QLt(dist, acc.minDist)
                 THEN [minDist |-> dist, minIndex |-> k, minT |-> t]
                 ELSE acc

RECURSIVE ProjectFrom(_, _, _, _)
ProjectFrom(acc, point, line, k) ==
    IF k >= Len(line) - 1 THEN acc
    \* the iteration is bound as the element of a singleton, which has TLC
    \* evaluate it once, before the next iteration starts
    ELSE CHOOSE r \in {ProjectFrom(next, point, line, k + 1) :
                         next \in {ProjectIter(acc, point, line, k)}} : TRUE

\* distance is the square of the distance of the code
projectPointToLineString(point, line) ==
    LET r == ProjectFrom([minDist |-> Infinity, minIndex |-> -1, minT |-> QInt(0)],
                         point, line, 0)
    IN  [fractionalIndex |-> QAdd(QInt(r.minIndex), r.minT), distance |-> r.minDist]

----------------------------------------------------------------------------
(* processAngkotStops *)

\* 1.0 km and 0.25 km, in units of 250 m
MAX_DISTANCE == 4
MIN_DISTANCE == 1

\* x || dflt for a string or undefined x
OrElse(x, dflt) == IF x = "" THEN dflt ELSE x

\* el.tags?.name ("" stands for undefined, which || treats alike)
TagName(el) == IF "name" \in DOMAIN el.tags THEN el.tags.name ELSE ""

\* the coordinates of a way's geometry, as the keys `${coord.lon},${coord.lat}`
WayKeys(way) == {<<way.geometry[k].lon, way.geometry[k].lat>> : k \in 1..Len(way.geometry)}

\* the coordinate-to-name Map after scanning ws in order: the first way that
\* holds a coordinate names it
RECURSIVE BuildCoordToName(_, _)
BuildCoordToName(m, ws) ==
    IF Len(ws) = 0 THEN m
    ELSE LET name == OrElse(TagName(ws[1]), "Jalan terdekat")
             m2 == [c \in DOMAIN m \cup WayKeys(ws[1]) |->
                        IF c \in DOMAIN m THEN m[c] ELSE name]
         IN  BuildCoordToName(m2, Tail(ws))

EmptyMap == [c \in {} |-> ""]

\* realStopNodes.map(node => feature)
RealStopFeature(node) ==
    [coordinates |-> <<node.lon, node.lat>>,
     id |-> ToString(node.id),
     name |-> OrElse(TagName(node), "Unknown"),
     role |-> node.role,
     isReal |-> TRUE,
     mode |-> "bus"]

\* one unit is 0.0022483 degrees: x.toFixed(4) of a coordinate of q units is
\* the nearest multiple of 1e-4 degrees, given here as the count of them
ToFixed4(q) ==
    LET x == QMul(q, Q(22483, 1000))
    IN  IF x[1] >= 0 THEN QFloor(QAdd(x, Q(1, 2))) ELSE -QFloor(QAdd(QAbs(x), Q(1, 2)))

\* Math.floor(distance / MAX_DISTANCE), from the square of the distance
RECURSIVE FloorRatio(_, _, _)
FloorRatio(distSq, unit, n) ==
    IF QLt(distSq, QInt((n + 1) * unit * (n + 1) * unit)) THEN n
    ELSE FloorRatio(distSq, unit, n + 1)

\* mutant: no test of the distance to the real stops
VirtualCandidate_NoTooClose(startIdx, step, k, stops, coords, names) ==
    LET idx == QAdd(startIdx, QMul(QInt(k), step))
        coordIdx == QFloor(idx)
        t == QSub(idx, QInt(coordIdx))
    IN  IF coordIdx < 0 \/ coordIdx >= Len(coords) - 1 THEN Null
        ELSE LET coord1 == coords[coordIdx + 1]
                 coord2 == coords[coordIdx + 2]
                 lon == QAdd(coord1[1], QMul(t, QSub(coord2[1], coord1[1])))
                 lat == QAdd(coord1[2], QMul(t, QSub(coord2[2], coord1[2])))
                 key == <<lon, lat>>
             IN  [coordinates |-> <<lon, lat>>,
                  id |-> <<"virtual", ToFixed4(lon), ToFixed4(lat)>>,
                  name |-> IF key \in DOMAIN names THEN OrElse(names[key], "Jalan terdekat")
                           ELSE "Jalan terdekat",
                  role |-> "virtual",
                  isReal |-> FALSE,
                  mode |-> "bus"]

\* the virtual stop generateBetweenStops makes for target i, or Null
VirtualCandidate(startIdx, step, k, stops, coords, names) ==
    LET idx == QAdd(startIdx, QMul(QInt(k), step))
        coordIdx == QFloor(idx)
        t == QSub(idx, QInt(coordIdx))
    IN  IF coordIdx < 0 \/ coordIdx >= Len(coords) - 1 THEN Null
        ELSE LET coord1 == coords[coordIdx + 1]
                 coord2 == coords[coordIdx + 2]
                 lon == QAdd(coord1[1], QMul(t, QSub(coord2[1], coord1[1])))
                 lat == QAdd(coord1[2], QMul(t, QSub(coord2[2], coord1[2])))
                 key == <<lon, lat>>
                 tooClose == \E r \in 1..Len(stops) :
                     QLt(haversineDistanceSq(<<lon, lat>>, stops[r].coordinates),
                         QInt(MIN_DISTANCE * MIN_DISTANCE))
             IN  IF tooClose THEN Null
                 ELSE [coordinates |-> <<lon, lat>>,
                       id |-> <<"virtual", ToFixed4(lon), ToFixed4(lat)>>,
                       name |-> IF key \in DOMAIN names THEN OrElse(names[key], "Jalan terdekat")
                                ELSE "Jalan terdekat",
                       role |-> "virtual",
                       isReal |-> FALSE,
                       mode |-> "bus"]

RECURSIVE GenerateFrom(_, _, _, _, _, _, _)
GenerateFrom(startIdx, step, k, numVirtual, stops, coords, names) ==
    IF k > numVirtual THEN <<>>
    ELSE LET c == VirtualCandidate(startIdx, step, k, stops, coords, names)
             rest == GenerateFrom(startIdx, step, k + 1, numVirtual, stops, coords, names)
         IN  IF c = Null THEN rest ELSE <<c>> \o rest

\* mutant: the targets divide the stretch between the two stops into
\* numVirtual parts, the last target falls on the end stop
generateBetweenStops_StepOverN(start, end, stops, coords, names) ==
    LET startIdx == projectPointToLineString(start.coordinates, coords).fractionalIndex
        endIdx == projectPointToLineString(end.coordinates, coords).fractionalIndex
        distSq == haversineDistanceSq(start.coordinates, end.coordinates)
    IN  IF QLe(distSq, QInt(MAX_DISTANCE * MAX_DISTANCE)) THEN <<>>
        ELSE LET numVirtual == FloorRatio(distSq, MAX_DISTANCE, 0)
                 step == QDiv(QSub(endIdx, startIdx), QInt(numVirtual))
             IN  GenerateFrom(startIdx, step, 1, numVirtual, stops, coords, names)

\* mutant: a candidate is tested against the two stops of its pair only
generateBetweenStops_PairOnly(start, end, stops, coords, names) ==
    LET startIdx == projectPointToLineString(start.coordinates, coords).fractionalIndex
        endIdx == projectPointToLineString(end.coordinates, coords).fractionalIndex
        distSq == haversineDistanceSq(start.coordinates, end.coordinates)
    IN  IF QLe(distSq, QInt(MAX_DISTANCE * MAX_DISTANCE)) THEN <<>>
        ELSE LET numVirtual == FloorRatio(distSq, MAX_DISTANCE, 0)
                 step == QDiv(QSub(endIdx, startIdx), QInt(numVirtual + 1))
             IN  GenerateFrom(startIdx, step, 1, numVirtual, <<start, end>>, coords, names)

\* generateBetweenStops(start, end), with the variables it closes over
generateBetweenStops(start, end, stops, coords, names) ==
    LET startIdx == projectPointToLineString(start.coordinates, coords).fractionalIndex
        endIdx == projectPointToLineString(end.coordinates, coords).fractionalIndex
        distSq == haversineDistanceSq(start.coordinates, end.coordinates)
    IN  IF QLe(distSq, QInt(MAX_DISTANCE * MAX_DISTANCE)) THEN <<>>
        ELSE LET numVirtual == FloorRatio(distSq, MAX_DISTANCE, 0)
                 step == QDiv(QSub(endIdx, startIdx), QInt(numVirtual + 1))
             IN  GenerateFrom(startIdx, step, 1, numVirtual, stops, coords, names)

\* stop with its _projection
WithProjection(stop, coords) ==
    [stop |-> stop, projection |-> projectPointToLineString(stop.coordinates, coords)]

\* mutant: a sort that is not stable, stops of equal fractional index come out
\* in another order in a repeated call
RECURSIVE InsertSorted_Unstable(_, _)
InsertSorted_Unstable(sorted, x) ==
    IF Len(sorted) = 0 THEN <<x>>
    ELSE IF \/ QLt(x.projection.fractionalIndex, Last(sorted).projection.fractionalIndex)
            \/ /\ run = 2
               /\ x.projection.fractionalIndex = Last(sorted).projection.fractionalIndex
         THEN Append(InsertSorted_Unstable(SubSeq(sorted, 1, Len(sorted) - 1), x), Last(sorted))
         ELSE Append(sorted, x)

\* mutant: the stops stay in the order they were combined in
InsertSorted_Append(sorted, x) == Append(sorted, x)

\* Array.prototype.sort with (a, b) => a._projection.fractionalIndex -
\* b._projection.fractionalIndex: stable, ascending
RECURSIVE InsertSorted(_, _)
InsertSorted(sorted, x) ==
    IF Len(sorted) = 0 THEN <<x>>
    ELSE IF QLt(x.projection.fractionalIndex, Last(sorted).projection.fractionalIndex)
         THEN Append(InsertSorted(SubSeq(sorted, 1, Len(sorted) - 1), x), Last(sorted))
         ELSE Append(sorted, x)

RECURSIVE SortByProjection(_)
SortByProjection(xs) ==
    IF Len(xs) = 0 THEN <<>>
    ELSE InsertSorted(SortByProjection(SubSeq(xs, 1, Len(xs) - 1)), Last(xs))

\* mutant: real stops are tested for spacing like the others
ShouldAdd_NoRealExemption(last, stop) ==
    \/ last = Null
    \/ ~QLt(haversineDistanceSq(last.coordinates, stop.coordinates),
            QInt(MIN_DISTANCE * MIN_DISTANCE))

\* shouldAdd of the cleanup loop
ShouldAdd(last, stop) ==
    \/ last = Null
    \/ ~QLt(haversineDistanceSq(last.coordinates, stop.coordinates),
            QInt(MIN_DISTANCE * MIN_DISTANCE))
    \/ stop.isReal

\* one iteration of the cleanup loop; acc = [finalStops, lastStop]
CleanupIter(acc, stop) ==
    IF ShouldAdd(acc.lastStop, stop)
    THEN [finalStops |-> Append(acc.finalStops, stop), lastStop |-> stop]
    ELSE acc

----------------------------------------------------------------------------
(* Inputs of stitchWays *)

MaxWays == 3

Eps == Q(1, 2 * TolInv + 1)

\* (1 + Eps, 0) is within the tolerance of (1, 0) without being equal to it
NearOne == <<QAdd(QInt(1), Eps), QInt(0)>>

StitchPoints == {Pt(0, 0), Pt(1, 0), NearOne, Pt(2, 0)}

LonLat(c) == [lon |-> c[1], lat |-> c[2]]

Geometry(cs) == [k \in 1..Len(cs) |-> LonLat(cs[k])]

\* way geometries: every two-node way on the line lat = 0, two-node ways that
\* leave it, and three-node ways, among them a closed one
WayGeometries ==
    {Geometry(<<p[1], p[2]>>) : p \in {q \in StitchPoints \X StitchPoints : q[1] # q[2]}}
    \cup {Geometry(<<Pt(1, 0), Pt(1, 1)>>),
          Geometry(<<Pt(1, 1), Pt(1, 0)>>),
          Geometry(<<Pt(1, 0), Pt(1, 1), Pt(1, 0)>>),
          Geometry(<<Pt(0, 0), Pt(1, 0), Pt(1, 1)>>),
          Geometry(<<Pt(1, 1), Pt(2, 0), Pt(1, 0)>>)}

WayLists ==
    UNION {[1..n -> WayGeometries] : n \in 1..MaxWays}

MkWays(gs) == [k \in 1..Len(gs) |-> [id |-> k, geometry |-> gs[k]]]

----------------------------------------------------------------------------
(* Inputs of processAngkotStops: the ways and stop nodes of a relation *)

MaxStops == 3

Way(id, cs, tags) == [id |-> id, geometry |-> Geometry(cs), tags |-> tags]

Named(n) == [name |-> n]
Unnamed == [highway |-> "residential"]

\* the ways of a relation in member order: a straight segment of 1500 m; a
\* short and a long segment, the second drawn backwards; a line that doubles
\* back; two legs at a right angle; a segment of 750 m; a straight line of
\* 5000 m with a vertex every 500 m
RouteWays ==
    {<<Way(11, <<Pt(0, 0), Pt(6, 0)>>, Named("Jalan A"))>>,
     <<Way(21, <<Pt(0, 0), Pt(1, 0)>>, Named("Jalan B")),
       Way(22, <<Pt(10, 0), Pt(1, 0)>>, Unnamed)>>,
     <<Way(31, <<Pt(0, 0), Pt(6, 0)>>, Named("Jalan C")),
       Way(32, <<Pt(6, 0), Pt(0, 0)>>, Named("Jalan D"))>>,
     <<Way(41, <<Pt(0, 0), Pt(4, 0)>>, Unnamed),
       Way(42, <<Pt(4, 4), Pt(4, 0)>>, Named("Jalan E"))>>,
     <<Way(51, <<Pt(0, 0), Pt(3, 0)>>, Named("Jalan F"))>>,
     <<Way(61, [k \in 1..11 |-> Pt(2 * (k - 1), 0)], Named("Jalan G"))>>}

----------------------------------------------------------------------------
(* loadRouteData *)

\* a JSON value of routes.json that is a number, a string, or absent
Num(n) == [t |-> "number", v |-> n]
Str(x) == [t |-> "string", v |-> x]
Undefined == [t |-> "undefined"]

\* x.toString(); "TypeError" when x is undefined
JsToString(x) ==
    IF x.t = "number" THEN ToString(x.v)
    ELSE IF x.t = "string" THEN x.v
    ELSE "TypeError"

\* Array.prototype.flat of an array of arrays: flatMap is Flat of the map
RECURSIVE Flat(_)
Flat(xss) == IF Len(xss) = 0 THEN <<>> ELSE xss[1] \o Flat(Tail(xss))

\* lines 15-24: the routes of every group of every category, with the
\* category's mode
AllRoutes(routesData) ==
    LET OfCategory(category) ==
            LET OfGroup(group) ==
                    [k \in 1..Len(group.routes) |->
                        [relationId |-> JsToString(group.routes[k].relationId),
                         name |-> group.routes[k].name,
                         directionId |-> group.routes[k].directionId,
                         mode |-> category.mode]]
            IN  Flat([g \in 1..Len(category.routeGroups) |->
                          OfGroup(category.routeGroups[g])])
    IN  Flat([c \in 1..Len(routesData.categories) |-> OfCategory(routesData.categories[c])])

\* mutant: a key keeps the value of its first entry
RECURSIVE MapValues_FirstWins(_, _)
MapValues_FirstWins(entries, k) ==
    IF k > Len(entries) THEN <<>>
    ELSE IF \E j \in 1..(k - 1) : entries[j].relationId = entries[k].relationId
         THEN MapValues_FirstWins(entries, k + 1)
         ELSE <<entries[k]>> \o MapValues_FirstWins(entries, k + 1)

\* line 37: [...new Map(routes.map(route => [route.relationId, route])).values()]:
\* a key keeps the position of its first entry and takes the value of its last
RECURSIVE MapValues(_, _)
MapValues(entries, k) ==
    IF k > Len(entries) THEN <<>>
    ELSE IF \E j \in 1..(k - 1) : entries[j].relationId = entries[k].relationId
         THEN MapValues(entries, k + 1)
         ELSE LET same == {j \in k..Len(entries) : entries[j].relationId = entries[k].relationId}
                  last == CHOOSE j \in same : \A j2 \in same : j2 <= j
              IN  <<entries[last]>> \o MapValues(entries, k + 1)

\* loadRouteData() on the file: the routes returned, or exit for
\* process.exit(1)
loadRouteData(file) ==
    IF file.kind # "json"
    THEN [exit |-> TRUE, routes |-> <<>>]      \* readFileSync or JSON.parse throws
    ELSE LET allRoutes == AllRoutes(file.data)
         IN  IF \E k \in 1..Len(allRoutes) :
                    allRoutes[k].relationId \in {"TypeError", ""}
             THEN [exit |-> TRUE, routes |-> <<>>]   \* toString of undefined, or line 32
             ELSE [exit |-> FALSE, routes |-> MapValues(allRoutes, 1)]

----------------------------------------------------------------------------
(* The Overpass server and routes.json *)

Member(type, ref, role) == [type |-> type, ref |-> ref, role |-> role]

\* relation 1: one way, three stops; relation 2: no way member; relation 4: a
\* way and a stop node the server no longer has, a way and a stop node that
\* are members twice; relation 5: no stop member;
\* relation 6: the server has none of its ways; relation 3 does not exist
ServerRelations ==
    {[type |-> "relation", id |-> 1,
      members |-> <<Member("node", 101, "stop_entry_only"), Member("way", 11, ""),
                    Member("node", 106, "stop"), Member("node", 103, "stop_exit_only")>>],
     [type |-> "relation", id |-> 2,
      members |-> <<Member("node", 101, "stop")>>],
     [type |-> "relation", id |-> 4,
      members |-> <<Member("way", 41, "forward"), Member("way", 99, ""),
                    Member("way", 42, ""), Member("node", 101, "stop"),
                    Member("node", 199, "stop"), Member("node", 105, "platform"),
                    Member("node", 105, "stop"), Member("way", 42, "backward"),
                    Member("node", 101, "stop_exit_only")>>],
     [type |-> "relation", id |-> 5,
      members |-> <<Member("way", 51, ""), Member("node", 102, "platform")>>],
     [type |-> "relation", id |-> 6,
      members |-> <<Member("way", 99, "")>>]}

NodeElement(id, lon, lat, tags) ==
    [type |-> "node", id |-> id, lon |-> lon, lat |-> lat, tags |-> tags]

Half == Q(1, 2)

ServerNodes ==
    {NodeElement(101, QInt(0), QInt(0), Named("Terminal")),
     NodeElement(102, Half, QInt(0), [highway |-> "bus_stop"]),
     NodeElement(103, QInt(6), QInt(0), Named("Pasar")),
     NodeElement(104, QInt(10), QInt(0), Named("Alun-alun")),
     NodeElement(105, QInt(4), QInt(4), Named("Stasiun")),
     NodeElement(106, Q(7, 2), Half, [highway |-> "bus_stop"]),
     NodeElement(107, QInt(20), QInt(0), Named("Cicaheum"))}

ServerWays == {ws[k] : k \in 1..2, ws \in {r \in RouteWays : Len(r) >= 2}}
                  \cup {ws[1] : ws \in RouteWays}

\* the elements the server answers a query with
RelationResponse(relationId) == {r \in ServerRelations : ToString(r.id) = relationId}
WaysResponse(ids) == {w \in ServerWays : w.id \in ids}
NodesResponse(ids) == {n \in ServerNodes : n.id \in ids}

\* {...el, role: role}
WithRole(el, role) ==
    [f \in DOMAIN el \cup {"role"} |-> IF f = "role" THEN role ELSE el[f]]

\* members.map(member => ({id: member.ref, role: member.role}))
MemberRefs(members) ==
    [k \in 1..Len(members) |-> [id |-> members[k].ref, role |-> members[k].role]]

WayMembers(rel) ==
    LET IsWay(m) == m.type = "way" IN MemberRefs(SelectSeq(rel.members, IsWay))

StopMembers(rel) ==
    LET IsStop(m) == m.type = "node" /\ m.role \in {"stop", "stop_entry_only", "stop_exit_only"}
    IN  MemberRefs(SelectSeq(rel.members, IsStop))

MemberIds(ms) == {ms[k].id : k \in 1..Len(ms)}

\* mutant: a member that repeats an earlier member is left out
RECURSIVE WithDetails_NoRepeats(_, _)
WithDetails_NoRepeats(ms, elements) ==
    IF Len(ms) = 0 THEN <<>>
    ELSE LET n == Len(ms)
             front == WithDetails_NoRepeats(SubSeq(ms, 1, n - 1), elements)
         IN  IF \/ \E j \in 1..(n - 1) : ms[j].id = ms[n].id
                \/ ~(\E e \in elements : e.id = ms[n].id)
             THEN front
             ELSE Append(front, WithRole(CHOOSE e \in elements : e.id = ms[n].id, ms[n].role))

\* members.map(member => element of the response with the role, or null)
\*        .filter(Boolean)
RECURSIVE WithDetails(_, _)
WithDetails(ms, elements) ==
    IF Len(ms) = 0 THEN <<>>
    ELSE (IF \E e \in elements : e.id = ms[1].id
          THEN <<WithRole(CHOOSE e \in elements : e.id = ms[1].id, ms[1].role)>>
          ELSE <<>>)
             \o WithDetails(Tail(ms), elements)

\* the ids console.warn is called with: the members without an element in the
\* response, in member order
MissingIds(ms, elements) ==
    LET IsMissing(m) == ~(\E e \in elements : e.id = m.id)
        lost == SelectSeq(ms, IsMissing)
    IN  [k \in 1..Len(lost) |-> lost[k].id]

\* routes.json as found on disk
Route(relationId, name) == [relationId |-> relationId, name |-> name, directionId |-> 0]

RoutesFiles ==
    {[kind |-> "unreadable"],
     [kind |-> "not json"],
     [kind |-> "json", data |-> [categories |-> <<>>]],
     [kind |-> "json", data |-> [categories |->
        <<[mode |-> "angkot", routeGroups |->
              <<[routes |-> <<Route(Num(1), "Angkot 01"), Route(Str("3"), "Angkot 03"),
                              Route(Num(5), "Angkot 05")>>]>>],
          [mode |-> "bus", routeGroups |->
              <<[routes |-> <<Route(Num(4), "Bus 4")>>], [routes |-> <<>>]>>]>>]],
     [kind |-> "json", data |-> [categories |->
        <<[mode |-> "train", routeGroups |->
              <<[routes |-> <<Route(Num(1), "KA 1"), Route(Num(2), "KA 2"),
                              Route(Num(5), "KA 5")>>],
                [routes |-> <<Route(Num(6), "KA 6")>>]>>],
          [mode |-> "angkot", routeGroups |->
              <<[routes |-> <<Route(Str("4"), "Angkot 04")>>],
                [routes |-> <<Route(Str("1"), "Angkot 01")>>]>>]>>]],
     [kind |-> "json", data |-> [categories |->
        <<[mode |-> "angkot", routeGroups |->
              <<[routes |-> <<Route(Num(1), "Angkot 01"), Route(Undefined, "Angkot ?")>>]>>]>>]],
     [kind |-> "json", data |-> [categories |->
        <<[mode |-> "angkot", routeGroups |->
              <<[routes |-> <<Route(Str(""), "Angkot"), Route(Num(1), "Angkot 01")>>]>>]>>]]}

\* node elements with the role of their relation member
StopNodes ==
    {WithRole(n, IF n.id = 101 THEN "stop_entry_only"
                 ELSE IF n.id \in {104, 105} THEN "stop_exit_only" ELSE "stop") :
        n \in ServerNodes}

\* what getOrderedStops returns: the stop nodes in member order
StopNodeLists == UNION {[1..n -> StopNodes] : n \in 0..MaxStops}

----------------------------------------------------------------------------
(* State of the main loop while it is not running *)

\* overpassQuery(query, retries = 3, delay = 2000)
Retries == 3

\* let attempts = 3
MaxAttempts == 3

\* projectPointToLineString is not running
ProjIdle ==
    /\ projPoint = Null
    /\ segIdx = 0
    /\ minDist = Infinity
    /\ minIndex = -1
    /\ minT = QInt(0)

\* processAngkotStops has not been called a second time
RerunIdle ==
    /\ run = 1
    /\ firstRun = Null

\* orderWays has not been called
OrderIdle ==
    /\ opc = "idle"
    /\ usedWays = {}
    /\ nodeKey = Null
    /\ chain = <<>>
    /\ path = Null

RelationDirs == {"1", "2", "3", "4", "5", "6"}

NoFiles == [d \in RelationDirs |-> Null]

MainIdle ==
    /\ mpc = "idle"
    /\ uniqueRoutes = <<>>
    /\ routeIdx = 0
    /\ attempts = 0
    /\ success = FALSE
    /\ rpc = "idle"
    /\ qAttempt = 0
    /\ relation = Null
    /\ waysFile = NoFiles
    /\ stopsFile = NoFiles
    /\ stopsGeoJSON = Null
    /\ exitCode = "none"
    /\ invocations = 0
    /\ requests = 0
    /\ outcome = "none"
    /\ attempted = {}
    /\ missing = <<>>
    /\ routesFile = Null

----------------------------------------------------------------------------
(* stitchWays as a loop *)

StitchEntry ==
    /\ i = 0
    /\ stitched = <<>>
    /\ lastCoord = Null
    /\ warnings = <<>>
    /\ reversals = {}

SynthIdle ==
    /\ spc = "idle"
    /\ fullCoords = <<>>
    /\ coordToName = EmptyMap
    /\ realStopNodes = <<>>
    /\ realStops = <<>>
    /\ virtualStops = <<>>
    /\ genIdx = 0
    /\ projectedStops = <<>>
    /\ cleanIdx = 0
    /\ finalStops = <<>>
    /\ lastStop = Null

InitStitch ==
    /\ ways \in {MkWays(gs) : gs \in WayLists}
    /\ StitchEntry
    /\ SynthIdle
    /\ MainIdle
    /\ ProjIdle
    /\ RerunIdle
    /\ OrderIdle

StitchStep ==
    /\ i < Len(ways)
    /\ LET r == StitchIter([stitched |-> stitched, lastCoord |-> lastCoord,
                            warnings |-> warnings, reversals |-> reversals],
                           ways[i + 1], i)
       IN  /\ stitched' = r.stitched
           /\ lastCoord' = r.lastCoord
           /\ warnings' = r.warnings
           /\ reversals' = r.reversals
    /\ i' = i + 1
    /\ UNCHANGED ways
    /\ UNCHANGED <<synthVars, mainVars, projVars, rerunVars, orderVars>>

NextStitch == StitchStep

SpecStitch == InitStitch /\ [][NextStitch]_vars

----------------------------------------------------------------------------
(* processAngkotStops(relation, fullCoords) *)

\* entry: fullCoords is the route processRoute stitched from the relation's ways
InitSynth ==
    /\ ways \in RouteWays
    /\ StitchEntry
    /\ spc = "names"
    /\ fullCoords = stitchWays(ways)
    /\ coordToName = EmptyMap
    /\ realStopNodes = <<>>
    /\ realStops = <<>>
    /\ virtualStops = <<>>
    /\ genIdx = 0
    /\ projectedStops = <<>>
    /\ cleanIdx = 0
    /\ finalStops = <<>>
    /\ lastStop = Null
    /\ MainIdle
    /\ ProjIdle
    /\ RerunIdle
    /\ OrderIdle

\* lines 251-261: the coordinate-to-name mapping from the relation's ways
SynthNames ==
    /\ spc = "names"
    /\ coordToName' = BuildCoordToName(EmptyMap, ways)
    /\ spc' = "stops"
    /\ UNCHANGED <<mainVars, projVars, rerunVars, orderVars, stitchVars, fullCoords, realStopNodes, realStops, virtualStops, genIdx,
                   projectedStops, cleanIdx, finalStops, lastStop>>

\* lines 264-278: the real stops from getOrderedStops; a repeated call is
\* given what the first call was given
SynthRealStops ==
    /\ spc = "stops"
    /\ \E nodes \in (IF run = 1 THEN StopNodeLists ELSE {firstRun.nodes}) :
           /\ realStopNodes' = nodes
           /\ realStops' = [k \in 1..Len(nodes) |-> RealStopFeature(nodes[k])]
    /\ spc' = "generate"
    /\ UNCHANGED <<mainVars, projVars, rerunVars, orderVars, stitchVars, fullCoords, coordToName, virtualStops, genIdx,
                   projectedStops, cleanIdx, finalStops, lastStop>>

\* mutant: the loop also interpolates between the start of the route and the
\* first real stop
SynthGenerate_FromRouteStart ==
    /\ spc = "generate"
    /\ genIdx < Len(realStops)
    /\ virtualStops' = virtualStops \o
           generateBetweenStops(IF genIdx = 0 THEN [coordinates |-> fullCoords[1]]
                                ELSE realStops[genIdx],
                                realStops[genIdx + 1], realStops, fullCoords, coordToName)
    /\ genIdx' = genIdx + 1
    /\ UNCHANGED <<mainVars, projVars, rerunVars, orderVars, stitchVars, spc, fullCoords, coordToName, realStopNodes, realStops,
                   projectedStops, cleanIdx, finalStops, lastStop>>

\* lines 336-338: one iteration of the loop over consecutive real stops
SynthGenerate ==
    /\ spc = "generate"
    /\ genIdx < Len(realStops) - 1
    /\ virtualStops' = virtualStops \o
           generateBetweenStops(realStops[genIdx + 1], realStops[genIdx + 2],
                                realStops, fullCoords, coordToName)
    /\ genIdx' = genIdx + 1
    /\ UNCHANGED <<mainVars, projVars, rerunVars, orderVars, stitchVars, spc, fullCoords, coordToName, realStopNodes, realStops,
                   projectedStops, cleanIdx, finalStops, lastStop>>

\* lines 341-350: combine, project and sort
SynthSort ==
    /\ spc = "generate"
    /\ ~(genIdx < Len(realStops) - 1)
    /\ LET allStops == realStops \o virtualStops
       IN  projectedStops' =
               SortByProjection([k \in 1..Len(allStops) |-> WithProjection(allStops[k], fullCoords)])
    /\ spc' = "cleanup"
    /\ UNCHANGED <<mainVars, projVars, rerunVars, orderVars, stitchVars, fullCoords, coordToName, realStopNodes, realStops, virtualStops,
                   genIdx, cleanIdx, finalStops, lastStop>>

\* lines 356-373: one iteration of the cleanup loop
SynthCleanup ==
    /\ spc = "cleanup"
    /\ cleanIdx < Len(projectedStops)
    /\ LET r == CleanupIter([finalStops |-> finalStops, lastStop |-> lastStop],
                            projectedStops[cleanIdx + 1].stop)
       IN  /\ finalStops' = r.finalStops
           /\ lastStop' = r.lastStop
    /\ cleanIdx' = cleanIdx + 1
    /\ UNCHANGED <<mainVars, projVars, rerunVars, orderVars, stitchVars, spc, fullCoords, coordToName, realStopNodes, realStops, virtualStops,
                   genIdx, projectedStops>>

\* line 375: return finalStops
SynthReturn ==
    /\ spc = "cleanup"
    /\ ~(cleanIdx < Len(projectedStops))
    /\ spc' = "done"
    /\ UNCHANGED <<mainVars, projVars, rerunVars, orderVars, stitchVars, fullCoords, coordToName, realStopNodes, realStops, virtualStops,
                   genIdx, projectedStops, cleanIdx, finalStops, lastStop>>

NextSynth ==
    \/ SynthNames
    \/ SynthRealStops
    \/ SynthGenerate
    \/ SynthSort
    \/ SynthCleanup
    \/ SynthReturn

SpecSynth == InitSynth /\ [][NextSynth]_vars

\* processAngkotStops(relation, fullCoords) is called again with the same
\* relation and route, and the server answers as before
SynthAgain ==
    /\ spc = "done"
    /\ run = 1
    /\ run' = 2
    /\ firstRun' = [nodes |-> realStopNodes, stops |-> finalStops]
    /\ spc' = "names"
    /\ coordToName' = EmptyMap
    /\ realStopNodes' = <<>>
    /\ realStops' = <<>>
    /\ virtualStops' = <<>>
    /\ genIdx' = 0
    /\ projectedStops' = <<>>
    /\ cleanIdx' = 0
    /\ finalStops' = <<>>
    /\ lastStop' = Null
    /\ UNCHANGED <<mainVars, projVars, orderVars, stitchVars, fullCoords>>

NextRerun ==
    \/ NextSynth
    \/ SynthAgain

SpecRerun == InitSynth /\ [][NextRerun]_vars

----------------------------------------------------------------------------
(* projectPointToLineString(point, line) as a loop *)

MaxLine == 3

\* coordinates of the lines: three on one straight line, unevenly spaced, and
\* one off it
LinePoints == {Pt(0, 0), Pt(1, 0), Pt(3, 0), Pt(1, 1)}

\* lines of 2 to MaxLine coordinates, among them lines that come back to a
\* coordinate and lines with a segment of length zero
ProjectLines == UNION {[1..n -> LinePoints] : n \in 2..MaxLine}

\* the points projected: the coordinates of the lines and points off them
ProjectPoints == LinePoints \cup {Pt(2, 0), Pt(2, 1), <<Half, Half>>, Pt(0, 1)}

InitProject ==
    /\ ways = <<>>
    /\ StitchEntry
    /\ spc = "idle"
    /\ fullCoords \in ProjectLines
    /\ coordToName = EmptyMap
    /\ realStopNodes = <<>>
    /\ realStops = <<>>
    /\ virtualStops = <<>>
    /\ genIdx = 0
    /\ projectedStops = <<>>
    /\ cleanIdx = 0
    /\ finalStops = <<>>
    /\ lastStop = Null
    /\ MainIdle
    /\ RerunIdle
    /\ OrderIdle
    /\ projPoint \in ProjectPoints
    /\ segIdx = 0
    /\ minDist = Infinity
    /\ minIndex = -1
    /\ minT = QInt(0)

\* lines 211-237: one iteration of the loop over the segments
ProjectStep ==
    /\ projPoint # Null
    /\ segIdx < Len(fullCoords) - 1
    /\ LET r == ProjectIter([minDist |-> minDist, minIndex |-> minIndex, minT |-> minT],
                            projPoint, fullCoords, segIdx)
       IN  /\ minDist' = r.minDist
           /\ minIndex' = r.minIndex
           /\ minT' = r.minT
    /\ segIdx' = segIdx + 1
    /\ UNCHANGED <<stitchVars, synthVars, mainVars, rerunVars, orderVars, projPoint>>

NextProject == ProjectStep

SpecProject == InitProject /\ [][NextProject]_vars

----------------------------------------------------------------------------
(* orderWays of src/fetching/fetch-route.js, the stitching by graph         *)
(* traversal                                                                *)

\* the key of a node of the graph: lat + ',' + lon
NodeKey(p) == <<p.lat, p.lon>>

\* graph.get(key) of buildGraph(ws): for every way in order, an edge to its
\* last node if it starts at key, then an edge to its first node if it ends
\* there
RECURSIVE Neighbors(_, _)
Neighbors(ws, key) ==
    IF Len(ws) = 0 THEN <<>>
    ELSE LET way == Last(ws)
             first == NodeKey(way.geometry[1])
             last == NodeKey(Last(way.geometry))
         IN  Neighbors(SubSeq(ws, 1, Len(ws) - 1), key)
                 \o (IF first = key THEN <<[node |-> last, way |-> way]>> ELSE <<>>)
                 \o (IF last = key THEN <<[node |-> first, way |-> way]>> ELSE <<>>)

\* the neighbours the loop of dfs does not skip
UnusedNeighbors ==
    LET Unused(n) == n.way.id \notin usedWays
    IN  SelectSeq(Neighbors(ways, nodeKey), Unused)

\* the longest chain of ways given to orderWays
MaxChain == 3

\* node k (from 0) of a chain that goes up a staircase
ChainNode(k) == Pt((k + 1) \div 2, k \div 2)

\* way k of the chain, from node k - 1 to node k; the second way has a node
\* between its ends
ChainCoords(k) ==
    IF k = 2 THEN <<ChainNode(1), <<QInt(1), Half>>, ChainNode(2)>>
    ELSE <<ChainNode(k - 1), ChainNode(k)>>

\* the ways of a connected simple chain, listed in any order, each drawn in
\* either direction; the id of a way is its place in the chain
ChainInputs ==
    UNION {{[j \in 1..n |->
                [id |-> perm[j],
                 geometry |-> Geometry(IF drawn[j] THEN ChainCoords(perm[j])
                                       ELSE Reverse(ChainCoords(perm[j])))]] :
               perm \in Permutations(1..n), drawn \in [1..n -> BOOLEAN]} :
           n \in 1..MaxChain}

\* lines 236-241 and 256: the locals of orderWays and the call dfs(startKey, [start])
InitOrder ==
    /\ ways \in ChainInputs
    /\ StitchEntry
    /\ SynthIdle
    /\ MainIdle
    /\ ProjIdle
    /\ RerunIdle
    /\ opc = "dfs"
    /\ usedWays = {}
    /\ nodeKey = NodeKey(ways[1].geometry[1])
    /\ chain = <<ways[1].geometry[1]>>
    /\ path = <<>>

\* lines 244-252: dfs finds a neighbour along a way not used yet, and calls
\* itself for it
DfsVisit ==
    /\ opc = "dfs"
    /\ UnusedNeighbors # <<>>
    /\ LET neighbor == UnusedNeighbors[1].node
           way == UnusedNeighbors[1].way
           forward == NodeKey(way.geometry[1]) = nodeKey
           coords == IF forward THEN way.geometry ELSE Reverse(way.geometry)
       IN  /\ usedWays' = usedWays \cup {way.id}
           /\ nodeKey' = neighbor
           /\ chain' = chain \o Slice1(coords)
    /\ UNCHANGED <<stitchVars, synthVars, mainVars, projVars, rerunVars, opc, path>>

\* lines 253 and 257: no neighbour is left, path = chain, and every call
\* returns
DfsReturn ==
    /\ opc = "dfs"
    /\ UnusedNeighbors = <<>>
    /\ path' = chain
    /\ opc' = "done"
    /\ UNCHANGED <<stitchVars, synthVars, mainVars, projVars, rerunVars, usedWays, nodeKey, chain>>

NextOrder ==
    \/ DfsVisit
    \/ DfsReturn

SpecOrder == InitOrder /\ [][NextOrder]_vars

----------------------------------------------------------------------------
(* processRoute and the main loop *)

stitchRest == <<i, stitched, lastCoord, warnings, reversals>>

synthRest == <<spc, realStopNodes, realStops, virtualStops, genIdx, projectedStops,
               cleanIdx, finalStops, lastStop>>

\* the locals of processRoute and of the calls it makes
Locals(stage, q, rel, ws, coords, names, doc) ==
    /\ rpc' = stage
    /\ qAttempt' = q
    /\ relation' = rel
    /\ ways' = ws
    /\ fullCoords' = coords
    /\ coordToName' = names
    /\ stopsGeoJSON' = doc

NoLocals == Locals("idle", 0, Null, <<>>, <<>>, EmptyMap, Null)

\* processRoute goes on at stage
Goto(stage, q, rel, ws, coords, names, doc) ==
    /\ Locals(stage, q, rel, ws, coords, names, doc)
    /\ UNCHANGED <<mpc, attempts, success, outcome>>

\* mutant: the catch of the main loop leaves the for loop
Caught_Break ==
    /\ NoLocals
    /\ mpc' = IF attempts - 1 = 0 THEN "end" ELSE "while"
    /\ attempts' = attempts - 1
    /\ outcome' = "failed"
    /\ UNCHANGED success

\* mutant: the catch of the main loop does not count the attempt
Caught_NoDecrement ==
    /\ NoLocals
    /\ mpc' = "while"
    /\ attempts' = attempts
    /\ outcome' = "failed"
    /\ UNCHANGED success

\* processRoute throws (lines 470-473) and the main loop catches (487-494)
Caught ==
    /\ NoLocals
    /\ mpc' = "while"
    /\ attempts' = attempts - 1
    /\ outcome' = "failed"
    /\ UNCHANGED success

\* processRoute returns true (line 469) and the main loop sets success (486)
Returned ==
    /\ NoLocals
    /\ mpc' = "while"
    /\ success' = TRUE
    /\ outcome' = "ok"
    /\ UNCHANGED attempts

\* mutant: the first failed request of a query is thrown at once
RequestFailed_NoRetry == Caught

\* mutant: a query is given one request more than retries
RequestFailed_OneMore ==
    IF qAttempt = Retries + 1 THEN Caught
    ELSE Goto(rpc, qAttempt + 1, relation, ways, fullCoords, coordToName, stopsGeoJSON)

\* the catch of overpassQuery (lines 60-64): throw after the last attempt,
\* otherwise the next attempt of the same query
RequestFailed ==
    IF qAttempt = Retries THEN Caught
    ELSE Goto(rpc, qAttempt + 1, relation, ways, fullCoords, coordToName, stopsGeoJSON)

CurrentRoute == uniqueRoutes[routeIdx]

InitMain ==
    /\ ways = <<>>
    /\ StitchEntry
    /\ SynthIdle
    /\ ProjIdle
    /\ RerunIdle
    /\ OrderIdle
    /\ mpc = "load"
    /\ uniqueRoutes = <<>>
    /\ routeIdx = 0
    /\ attempts = 0
    /\ success = FALSE
    /\ rpc = "idle"
    /\ qAttempt = 0
    /\ relation = Null
    /\ waysFile = NoFiles
    /\ stopsFile = NoFiles
    /\ stopsGeoJSON = Null
    /\ exitCode = "none"
    /\ invocations = 0
    /\ requests = 0
    /\ outcome = "none"
    /\ attempted = {}
    /\ missing = <<>>
    /\ routesFile \in RoutesFiles

processFrame == <<projVars, rerunVars, orderVars, stitchRest, uniqueRoutes, routeIdx, exitCode,
                  invocations, attempted, routesFile>>

\* line 44: const uniqueRoutes = loadRouteData()
Load ==
    /\ mpc = "load"
    /\ LET r == loadRouteData(routesFile)
       IN  IF r.exit
               THEN /\ mpc' = "exited"
                    /\ exitCode' = "1"
                    /\ UNCHANGED uniqueRoutes
               ELSE /\ mpc' = "for"
                    /\ uniqueRoutes' = r.routes
                    /\ UNCHANGED exitCode
    /\ UNCHANGED <<projVars, rerunVars, orderVars, stitchVars, synthVars, routeIdx, attempts, success, rpc, qAttempt,
                   relation, waysFile, stopsFile, stopsGeoJSON, invocations, requests,
                   outcome, attempted, missing, routesFile>>

\* lines 479-481: the next route of the for loop
NextRoute ==
    /\ mpc = "for"
    /\ routeIdx < Len(uniqueRoutes)
    /\ routeIdx' = routeIdx + 1
    /\ attempts' = MaxAttempts
    /\ success' = FALSE
    /\ mpc' = "while"
    /\ invocations' = 0
    /\ requests' = 0
    /\ outcome' = "none"
    /\ UNCHANGED <<projVars, rerunVars, orderVars, stitchVars, synthVars, uniqueRoutes, rpc, qAttempt, relation, waysFile,
                   stopsFile, stopsGeoJSON, exitCode, attempted, missing, routesFile>>

\* line 498: the for loop is over and the process ends
Finish ==
    /\ mpc = "for"
    /\ routeIdx >= Len(uniqueRoutes)
    /\ mpc' = "end"
    /\ exitCode' = "0"
    /\ UNCHANGED <<projVars, rerunVars, orderVars, stitchVars, synthVars, uniqueRoutes, routeIdx, attempts, success, rpc,
                   qAttempt, relation, waysFile, stopsFile, stopsGeoJSON, invocations,
                   requests, outcome, attempted, missing, routesFile>>

\* lines 483-485: the while condition holds, processRoute(route) is called
Invoke ==
    /\ mpc = "while"
    /\ attempts > 0 /\ ~success
    /\ mpc' = "run"
    /\ rpc' = "mkdirp"
    /\ invocations' = invocations + 1
    /\ attempted' = attempted \cup {routeIdx}
    /\ missing' = <<>>
    /\ UNCHANGED <<projVars, rerunVars, orderVars, stitchVars, synthVars, uniqueRoutes, routeIdx, attempts, success,
                   qAttempt, relation, waysFile, stopsFile, stopsGeoJSON, exitCode,
                   requests, outcome, routesFile>>

\* mutant: a route given up on ends the process with status 1
LeaveWhile_ExitOnFailure ==
    /\ mpc = "while"
    /\ ~(attempts > 0 /\ ~success)
    /\ mpc' = IF success THEN "for" ELSE "exited"
    /\ exitCode' = IF success THEN exitCode ELSE "1"
    /\ UNCHANGED <<projVars, rerunVars, orderVars, stitchVars, synthVars, uniqueRoutes, routeIdx, attempts, success, rpc,
                   qAttempt, relation, waysFile, stopsFile, stopsGeoJSON,
                   invocations, requests, outcome, attempted, missing, routesFile>>

\* line 483: the while condition fails
LeaveWhile ==
    /\ mpc = "while"
    /\ ~(attempts > 0 /\ ~success)
    /\ mpc' = "for"
    /\ UNCHANGED <<projVars, rerunVars, orderVars, stitchVars, synthVars, uniqueRoutes, routeIdx, attempts, success, rpc,
                   qAttempt, relation, waysFile, stopsFile, stopsGeoJSON, exitCode,
                   invocations, requests, outcome, attempted, missing, routesFile>>

\* line 385: await mkdirp(dir)
Mkdirp ==
    /\ mpc = "run" /\ rpc = "mkdirp"
    /\ \E ok \in BOOLEAN :
           IF ok THEN Goto("relation", 1, relation, ways, fullCoords, coordToName, stopsGeoJSON)
           ELSE Caught
    /\ UNCHANGED <<processFrame, missing, synthRest, waysFile, stopsFile, requests>>

\* line 389: a request of getRelationDetails; on its answer lines 72-76 and the
\* way members of getOrderedWays (81-88, 392-394)
RelationRequest ==
    /\ mpc = "run" /\ rpc = "relation"
    /\ requests' = requests + 1
    /\ \E ok \in BOOLEAN :
           IF ~ok THEN RequestFailed
           ELSE LET elements == RelationResponse(CurrentRoute.relationId)
                IN  IF elements = {} THEN Caught
                    ELSE LET rel == CHOOSE r \in elements : TRUE
                         IN  IF Len(WayMembers(rel)) = 0 THEN Caught
                             ELSE Goto("ways", 1, rel, ways, fullCoords, coordToName, stopsGeoJSON)
    /\ UNCHANGED <<processFrame, missing, synthRest, waysFile, stopsFile>>

\* line 390: a request of getOrderedWays; on its answer lines 94-102, 392-397
WaysRequest ==
    /\ mpc = "run" /\ rpc = "ways"
    /\ requests' = requests + 1
    /\ \E ok \in BOOLEAN :
           IF ~ok THEN RequestFailed /\ UNCHANGED missing
           ELSE LET wm == WayMembers(relation)
                    ws == WithDetails(wm, WaysResponse(MemberIds(wm)))
                IN  /\ missing' = missing \o MissingIds(wm, WaysResponse(MemberIds(wm)))
                    /\ IF Len(ws) = 0 THEN Caught
                       ELSE Goto("writeWays", 0, relation, ws, stitchWays(ws), coordToName,
                                 stopsGeoJSON)
    /\ UNCHANGED <<processFrame, synthRest, waysFile, stopsFile>>

WaysDocument(ws, coords, relationId) ==
    [type |-> "FeatureCollection",
     features |-> <<[type |-> "Feature",
                     geometry |-> [type |-> "LineString", coordinates |-> coords],
                     properties |-> [id |-> ws[1].id, relationId |-> relationId]]>>]

\* lines 426-439
AngkotStopsDocument(stops) ==
    [type |-> "FeatureCollection",
     features |-> [k \in 1..Len(stops) |->
         [type |-> "Feature",
          geometry |-> [type |-> "Point", coordinates |-> stops[k].coordinates],
          properties |-> [id |-> stops[k].id, name |-> stops[k].name, role |-> stops[k].role,
                          isReal |-> stops[k].isReal, mode |-> "bus"]]]]

\* {...base, ...tags}
Spread(base, tags) ==
    [f \in DOMAIN base \cup DOMAIN tags |-> IF f \in DOMAIN tags THEN tags[f] ELSE base[f]]

\* lines 444-459
PlainStopsDocument(nodes) ==
    [type |-> "FeatureCollection",
     features |-> [k \in 1..Len(nodes) |->
         [type |-> "Feature",
          geometry |-> [type |-> "Point", coordinates |-> <<nodes[k].lon, nodes[k].lat>>],
          properties |-> Spread([id |-> ToString(nodes[k].id),
                                 name |-> OrElse(TagName(nodes[k]), "Unknown"),
                                 role |-> nodes[k].role],
                                nodes[k].tags)]]]

\* mutant: ways.geojson is not written before the stops are worked on
WriteWays_Deferred ==
    /\ mpc = "run" /\ rpc = "writeWays"
    /\ \E ok \in BOOLEAN :
           IF ~ok THEN Caught /\ UNCHANGED waysFile
           ELSE /\ UNCHANGED waysFile
                /\ Goto(IF CurrentRoute.mode = "angkot" THEN "angkotWays" ELSE "stops", 1,
                        relation, ways, fullCoords, coordToName, stopsGeoJSON)
    /\ UNCHANGED <<processFrame, missing, synthRest, stopsFile, requests>>

\* lines 414-417: ways.geojson is written; then the stops branch (421-424
\* with 252, or 442)
WriteWays ==
    /\ mpc = "run" /\ rpc = "writeWays"
    /\ \E ok \in BOOLEAN :
           IF ~ok THEN Caught /\ UNCHANGED waysFile
           ELSE /\ waysFile' = [waysFile EXCEPT ![CurrentRoute.relationId] =
                                    WaysDocument(ways, fullCoords, CurrentRoute.relationId)]
                /\ Goto(IF CurrentRoute.mode = "angkot" THEN "angkotWays" ELSE "stops", 1,
                        relation, ways, fullCoords, coordToName, stopsGeoJSON)
    /\ UNCHANGED <<processFrame, missing, synthRest, stopsFile, requests>>

\* line 252: a request of getOrderedWays in processAngkotStops; on its answer
\* lines 253-261, and getOrderedStops is called (264)
AngkotWaysRequest ==
    /\ mpc = "run" /\ rpc = "angkotWays"
    /\ requests' = requests + 1
    /\ \E ok \in BOOLEAN :
           IF ~ok THEN RequestFailed /\ UNCHANGED missing
           ELSE LET wm == WayMembers(relation)
                    ws == WithDetails(wm, WaysResponse(MemberIds(wm)))
                IN  /\ missing' = missing \o MissingIds(wm, WaysResponse(MemberIds(wm)))
                    /\ Goto("stops", 1, relation, ways, fullCoords,
                            BuildCoordToName(EmptyMap, ws), stopsGeoJSON)
    /\ UNCHANGED <<processFrame, synthRest, waysFile, stopsFile>>

\* mutant: the stops of every route go through the synthesis
GotStops_AlwaysSynth(nodes) ==
    /\ Goto("angkot", 0, relation, ways, fullCoords, coordToName, stopsGeoJSON)
    /\ spc' = "generate"
    /\ realStopNodes' = nodes
    /\ realStops' = [k \in 1..Len(nodes) |-> RealStopFeature(nodes[k])]
    /\ UNCHANGED <<virtualStops, genIdx, projectedStops, cleanIdx, finalStops, lastStop>>

\* getOrderedStops returned nodes: lines 265-278 and on to the loop of 336 for
\* an angkot route, lines 444-459 for the others
GotStops(nodes) ==
    IF CurrentRoute.mode = "angkot"
    THEN /\ Goto("angkot", 0, relation, ways, fullCoords, coordToName, stopsGeoJSON)
         /\ spc' = "generate"
         /\ realStopNodes' = nodes
         /\ realStops' = [k \in 1..Len(nodes) |-> RealStopFeature(nodes[k])]
         /\ UNCHANGED <<virtualStops, genIdx, projectedStops, cleanIdx, finalStops, lastStop>>
    ELSE /\ Goto("writeStops", 0, relation, ways, fullCoords, coordToName,
                 PlainStopsDocument(nodes))
         /\ UNCHANGED synthRest

\* lines 160-170: the relation has no stop member, no request is made
NoStopMembers ==
    /\ mpc = "run" /\ rpc = "stops"
    /\ Len(StopMembers(relation)) = 0
    /\ GotStops(<<>>)
    /\ UNCHANGED <<processFrame, missing, waysFile, stopsFile, requests>>

\* line 174: a request of getOrderedStops; on its answer lines 176-184
StopsRequest ==
    /\ mpc = "run" /\ rpc = "stops"
    /\ Len(StopMembers(relation)) > 0
    /\ requests' = requests + 1
    /\ \E ok \in BOOLEAN :
           IF ~ok THEN RequestFailed /\ UNCHANGED <<synthRest, missing>>
           ELSE LET sm == StopMembers(relation)
                IN  /\ missing' = missing \o MissingIds(sm, NodesResponse(MemberIds(sm)))
                    /\ GotStops(WithDetails(sm, NodesResponse(MemberIds(sm))))
    /\ UNCHANGED <<processFrame, waysFile, stopsFile>>

\* lines 375 and 424-439: processAngkotStops returns finalStops and the stops
\* document is built from them
AngkotStopsReturned ==
    /\ mpc = "run" /\ rpc = "angkot"
    /\ spc = "done"
    /\ Goto("writeStops", 0, relation, ways, fullCoords, coordToName,
            AngkotStopsDocument(finalStops))
    /\ spc' = "idle"
    /\ realStopNodes' = <<>>
    /\ realStops' = <<>>
    /\ virtualStops' = <<>>
    /\ genIdx' = 0
    /\ projectedStops' = <<>>
    /\ cleanIdx' = 0
    /\ finalStops' = <<>>
    /\ lastStop' = Null
    /\ UNCHANGED <<processFrame, missing, waysFile, stopsFile, requests>>

\* lines 463-469: stops.geojson is written and processRoute returns
WriteStops ==
    /\ mpc = "run" /\ rpc = "writeStops"
    /\ \E ok \in BOOLEAN :
           IF ~ok THEN Caught /\ UNCHANGED stopsFile
           ELSE /\ stopsFile' = [stopsFile EXCEPT ![CurrentRoute.relationId] = stopsGeoJSON]
                /\ Returned
    /\ UNCHANGED <<processFrame, missing, synthRest, waysFile, requests>>

NextMain ==
    \/ Load
    \/ NextRoute
    \/ Finish
    \/ Invoke
    \/ LeaveWhile
    \/ Mkdirp
    \/ RelationRequest
    \/ WaysRequest
    \/ WriteWays
    \/ AngkotWaysRequest
    \/ NoStopMembers
    \/ StopsRequest
    \/ SynthGenerate
    \/ SynthSort
    \/ SynthCleanup
    \/ SynthReturn
    \/ AngkotStopsReturned
    \/ WriteStops

SpecMain == InitMain /\ [][NextMain]_vars

\* the position of the main loop, of processRoute and of processAngkotStops
pcs == <<mpc, rpc, qAttempt, spc, genIdx, cleanIdx, routeIdx>>

spcs == <<spc, genIdx, cleanIdx>>

\* the steps of the main loop and of processRoute
MainCalls ==
    \/ Load
    \/ NextRoute
    \/ Finish
    \/ Invoke
    \/ LeaveWhile
    \/ Mkdirp
    \/ RelationRequest
    \/ WaysRequest
    \/ WriteWays
    \/ AngkotWaysRequest
    \/ NoStopMembers
    \/ StopsRequest
    \/ AngkotStopsReturned
    \/ WriteStops

\* the control flow of lines 336-375: what SynthGenerate, SynthSort,
\* SynthCleanup and SynthReturn do to the position of processAngkotStops
SynthControl ==
    \/ /\ spc = "generate" /\ genIdx < Len(realStops) - 1
       /\ genIdx' = genIdx + 1 /\ UNCHANGED <<spc, cleanIdx>>
    \/ /\ spc = "generate" /\ ~(genIdx < Len(realStops) - 1)
       /\ spc' = "cleanup" /\ UNCHANGED <<genIdx, cleanIdx>>
    \/ /\ spc = "cleanup" /\ cleanIdx < Len(projectedStops)
       /\ cleanIdx' = cleanIdx + 1 /\ UNCHANGED <<spc, genIdx>>
    \/ /\ spc = "cleanup" /\ ~(cleanIdx < Len(projectedStops))
       /\ spc' = "done" /\ UNCHANGED <<genIdx, cleanIdx>>

\* every step is taken: an awaited call returns or throws (axios.get has a
\* timeout of 15000 ms, the delay before a retry is a timer), the loops of
\* processAngkotStops are synchronous
SpecMainFair == SpecMain /\ WF_pcs(MainCalls) /\ WF_spcs(SynthControl)

----------------------------------------------------------------------------
(* Claims about the main loop *)

AllRoutesAttempted == attempted = 1..Len(uniqueRoutes)

\* C8: once the route list is loaded, whatever fails in processRoute, the main
\* loop reaches its end with every route of the list attempted and the process
\* not exited; while the loop runs the process has no exit status
C8_NoRouteHaltsRun ==
    /\ (mpc = "for") ~> (mpc = "end" /\ AllRoutesAttempted /\ exitCode = "0")
    /\ [](mpc \in {"for", "while", "run"} => exitCode = "none")
    /\ [](mpc = "end" => AllRoutesAttempted)

\* the loop ended after an earlier route was given up on and a later route was
\* written
C8_Witness ==
    /\ mpc = "end"
    /\ \E k \in 1..Len(uniqueRoutes) : \E j \in (k + 1)..Len(uniqueRoutes) :
           /\ waysFile[uniqueRoutes[k].relationId] = Null
           /\ stopsFile[uniqueRoutes[j].relationId] # Null

\* C9: processRoute is invoked at most 3 times for a route; an invocation
\* other than the first follows a failed one; after a success the route is not
\* invoked again; after the third failure the loop leaves the route, and the
\* step after that starts the next route or ends the loop
C9_BoundedRetries ==
    /\ [](invocations <= 3)
    /\ [][invocations' = invocations + 1 =>
              /\ mpc = "while" /\ mpc' = "run"
              /\ invocations = 0 \/ outcome = "failed"]_vars
    /\ [][outcome = "ok" => invocations' = invocations \/ routeIdx' = routeIdx + 1]_vars
    /\ [][mpc = "while" /\ invocations = 3 /\ outcome = "failed" => mpc' = "for"]_vars
    /\ [][mpc = "for" => \/ mpc' = "end"
                         \/ /\ routeIdx' = routeIdx + 1
                            /\ invocations' = 0
                            /\ outcome' = "none"]_vars

\* the previous route was given up on after its third failure and the current
\* route is in its second invocation
C9_Witness ==
    /\ routeIdx >= 2
    /\ mpc = "run"
    /\ waysFile[uniqueRoutes[routeIdx - 1].relationId] = Null
    /\ invocations = 2

\* C10: the process exits with status 1 only from loadRouteData, before any
\* processRoute; once processRoute has been invoked no state has exit status 1
C10_ExitOnlyFromLoad ==
    /\ [][exitCode' = "1" /\ exitCode # "1" => mpc = "load"]_vars
    /\ [](exitCode = "1" => mpc = "exited" /\ attempted = {} /\ routeIdx = 0)
    /\ [](attempted # {} => exitCode # "1")

\* the process exited with status 1
C10_Witness == exitCode = "1" /\ mpc = "exited"

\* the members the server has an element for, in member order
Fetched(ms) ==
    LET Has(m) == \E e \in ServerWays \cup ServerNodes : e.id = m.id
    IN  SelectSeq(ms, Has)

\* result is, member by member, the server's element under the member's role
ReturnsFetched(result, ms) ==
    LET kept == Fetched(ms)
    IN  /\ Len(result) = Len(kept)
        /\ \A k \in 1..Len(kept) :
               /\ result[k].id = kept[k].id
               /\ result[k].role = kept[k].role
               /\ \E e \in ServerWays \cup ServerNodes :
                      /\ e.id = kept[k].id
                      /\ \A f \in DOMAIN e \ {"role"} : result[k][f] = e[f]

\* the ids of the members the server has no element for, in member order
Unfetched(ms) ==
    LET Lost(m) == ~(\E e \in ServerWays \cup ServerNodes : e.id = m.id)
        lost == SelectSeq(ms, Lost)
    IN  [k \in 1..Len(lost) |-> lost[k].id]

\* what getOrderedWays and getOrderedStops returned to processRoute and to
\* processAngkotStops, and what they warned about
OrderedMembersReturned ==
    /\ mpc = "run" /\ rpc \in {"writeWays", "angkotWays", "stops", "angkot", "writeStops"}
           => ReturnsFetched(ways, WayMembers(relation))
    /\ mpc = "run" /\ rpc = "writeWays" => missing = Unfetched(WayMembers(relation))
    /\ mpc = "run" /\ rpc = "angkot"
           => /\ ReturnsFetched(realStopNodes, StopMembers(relation))
              /\ missing = Unfetched(WayMembers(relation)) \o Unfetched(WayMembers(relation))
                               \o Unfetched(StopMembers(relation))

\* C19 as stated: a way or stop node of the relation that is absent from the
\* fetched details is dropped with a warning and does not fail the route;
\* getOrderedWays and getOrderedStops return exactly the members whose details
\* were fetched, in member order, repeats kept, each with its member's role.
C19_Claim ==
    /\ []OrderedMembersReturned
    /\ [][mpc = "run" /\ missing' # missing => attempts' = attempts]_vars

\* C19, amended: the member is dropped with a warning and the functions return
\* exactly the fetched members, in member order, repeats kept, each with its
\* member's role; the warning fails the attempt at the route exactly when it
\* is about the ways and none of the relation's ways was fetched.
C19_MissingDropped ==
    /\ []OrderedMembersReturned
    /\ [][mpc = "run" /\ missing' # missing
              => (attempts' < attempts
                     <=> rpc = "ways" /\ Fetched(WayMembers(relation)) = <<>>)]_vars

\* relation 4 reaches the writing of its stops: way 99 and node 199 were
\* warned about, way 42 is kept twice
C19_Witness ==
    /\ mpc = "run" /\ rpc = "writeStops"
    /\ relation.id = 4
    /\ \E k \in 1..Len(missing) : missing[k] = 99
    /\ \E k \in 1..Len(missing) : missing[k] = 199
    /\ Len(ways) = 3 /\ ways[2].id = 42 /\ ways[3].id = 42
    /\ ways[2].role = "" /\ ways[3].role = "backward"

\* processAngkotStops is being run: from its call at line 424 to its return
InSynthesis == rpc \in {"angkotWays", "angkot"} \/ spc # "idle"

\* the stops document of a route that is not an angkot route: one Point
\* feature per fetched stop member, in member order, none of them virtual
PassThrough ==
    LET kept == Fetched(StopMembers(relation))
        fs == stopsGeoJSON.features
    IN  /\ Len(fs) = Len(kept)
        /\ \A k \in 1..Len(kept) :
               /\ fs[k].type = "Feature"
               /\ fs[k].geometry.type = "Point"
               /\ \E n \in ServerNodes :
                      /\ n.id = kept[k].id
                      /\ fs[k].geometry.coordinates = <<n.lon, n.lat>>
               /\ "isReal" \notin DOMAIN fs[k].properties

\* C20: processRoute runs the virtual-stop synthesis if and only if the mode of
\* the route is 'angkot'; for every other mode the stops document holds exactly
\* one Point feature per fetched stop member, in relation member order, and no
\* virtual stop.
C20_SynthesisIffAngkot ==
    /\ [](InSynthesis => mpc = "run" /\ CurrentRoute.mode = "angkot")
    /\ [][mpc = "run" /\ rpc # "writeStops" /\ rpc' = "writeStops"
              => IF CurrentRoute.mode = "angkot"
                 THEN /\ rpc = "angkot" /\ spc = "done"
                      /\ stopsGeoJSON' = AngkotStopsDocument(finalStops)
                 ELSE rpc = "stops" /\ spc = "idle"]_vars
    /\ [](mpc = "run" /\ rpc = "writeStops" /\ CurrentRoute.mode # "angkot" => PassThrough)
    /\ [][stopsFile' # stopsFile
              => stopsFile'[CurrentRoute.relationId] = stopsGeoJSON]_vars

\* the bus route of relation 4 has its stops written: three stops, the first
\* two more than MAX_DISTANCE apart, and no stop between them
C20_Witness ==
    /\ mpc = "while" /\ success
    /\ CurrentRoute.mode = "bus" /\ CurrentRoute.relationId = "4"
    /\ Len(stopsFile["4"].features) = 3
    /\ stopsFile["4"].features[1].geometry.coordinates = Pt(0, 0)
    /\ stopsFile["4"].features[2].geometry.coordinates = Pt(4, 4)
    /\ stopsFile["4"].features[3].geometry.coordinates = Pt(0, 0)

\* a step that issues a request to the server
IssuesRequest == mpc = "run" /\ requests' = requests + 1

\* what fails the route on a successful response: the relation is not in it,
\* the relation has no way member, or none of its ways is in it
ResponseRejected ==
    \/ /\ rpc = "relation"
       /\ \/ RelationResponse(CurrentRoute.relationId) = {}
          \/ \A r \in RelationResponse(CurrentRoute.relationId) : Len(WayMembers(r)) = 0
    \/ /\ rpc = "ways"
       /\ Fetched(WayMembers(relation)) = <<>>

\* C25: overpassQuery (retries = 3) issues at most 3 requests per query, the
\* request k + 1 only after the request k failed; it returns the elements of
\* the first successful response without a further request and throws only
\* after all 3 requests failed; what it throws leaves processRoute as a failure
\* of the attempt at the route.
C25_QueryRetries ==
    /\ [](mpc = "run" /\ rpc \in {"relation", "ways", "angkotWays", "stops"}
              => qAttempt \in 1..Retries)
    /\ [][IssuesRequest =>
              \/ \* the request failed and the next one of the same query follows
                 /\ rpc' = rpc /\ qAttempt' = qAttempt + 1 /\ qAttempt < Retries
                 /\ attempts' = attempts /\ mpc' = "run"
              \/ \* the response is returned and processRoute goes on
                 /\ mpc' = "run" /\ rpc' # rpc /\ attempts' = attempts
                 /\ rpc = "relation" => relation' \in RelationResponse(CurrentRoute.relationId)
                 /\ rpc = "ways" => ReturnsFetched(ways', WayMembers(relation))
              \/ \* the attempt at the route fails: the last request failed, or
                 \* the response was rejected
                 /\ mpc' = "while" /\ attempts' = attempts - 1 /\ outcome' = "failed"
                 /\ qAttempt = Retries \/ ResponseRejected]_vars

\* the relation query was answered at its third request, after two failures
C25_Witness ==
    /\ mpc = "run" /\ rpc = "ways" /\ qAttempt = 1
    /\ invocations = 1 /\ requests = Retries
    /\ relation \in ServerRelations

\* processRoute is fetching or synthesizing the stops, or writing them
AtStops == mpc = "run" /\ rpc \in {"angkotWays", "stops", "angkot", "writeStops"}

\* C28: within one attempt of processRoute the ways document is written
\* before any stop is fetched or synthesized, and nothing is rolled back: an
\* attempt that fails at the stops leaves its ways document written and the
\* stops document untouched; an attempt that fails because the relation is
\* missing or has no way with details writes neither document.
C28_WaysWrittenFirst ==
    /\ [](AtStops => waysFile[CurrentRoute.relationId]
                         = WaysDocument(ways, fullCoords, CurrentRoute.relationId))
    /\ [][mpc = "run" /\ attempts' < attempts
              => waysFile' = waysFile /\ stopsFile' = stopsFile]_vars
    /\ [][mpc = "run" /\ rpc \in {"mkdirp", "relation", "ways"}
              => waysFile' = waysFile /\ stopsFile' = stopsFile]_vars
    /\ [][stopsFile' # stopsFile => rpc = "writeStops" /\ success']_vars

\* the first attempt at a route failed at its stops: ways.geojson is there,
\* stops.geojson is not
C28_Witness ==
    /\ mpc = "while" /\ outcome = "failed" /\ invocations = 1
    /\ waysFile[CurrentRoute.relationId] # Null
    /\ stopsFile[CurrentRoute.relationId] = Null

\* the queries of one processRoute call: relation, ways, ways again for the
\* names, stop nodes
QueriesPerAttempt == 4

\* C29: the requests to the server are bounded per route: whatever requests
\* fail, one attempt of processRoute makes at most 4 queries of at most 3
\* requests each, so a route causes at most 36 requests over its 3 attempts,
\* and the run terminates.
C29_BoundedRequests ==
    /\ [](/\ invocations <= MaxAttempts
          /\ requests <= QueriesPerAttempt * Retries * invocations
          /\ requests <= 36)
    /\ <>(mpc \in {"end", "exited"})

\* a route used up its 36 requests: in each of its 3 attempts three queries
\* were answered at the third request and the fourth was not answered
C29_Witness ==
    /\ mpc = "while" /\ attempts = 0 /\ outcome = "failed"
    /\ invocations = MaxAttempts
    /\ requests = QueriesPerAttempt * Retries * MaxAttempts

\* the places in the list of routes.json of the entries of a relationId
Occurrences(all, id) == {k \in 1..Len(all) : all[k].relationId = id}

Least(S) == CHOOSE k \in S : \A k2 \in S : k <= k2
Greatest(S) == CHOOSE k \in S : \A k2 \in S : k2 <= k

\* C30: the routes are de-duplicated by relationId before they are processed:
\* every distinct relationId is one route, processed once (at most 3 attempts
\* in the whole run), at the place in the list of its first entry and with the
\* name, directionId and mode of its last entry.
C30_Deduplicated ==
    /\ [](mpc \notin {"idle", "load", "exited"} =>
            LET all == AllRoutes(routesFile.data)
                Id(k) == uniqueRoutes[k].relationId
            IN  /\ {Id(k) : k \in 1..Len(uniqueRoutes)} = {all[k].relationId : k \in 1..Len(all)}
                /\ \A a, b \in 1..Len(uniqueRoutes) :
                       a < b => /\ Id(a) # Id(b)
                                /\ Least(Occurrences(all, Id(a))) < Least(Occurrences(all, Id(b)))
                /\ \A a \in 1..Len(uniqueRoutes) :
                       uniqueRoutes[a] = all[Greatest(Occurrences(all, Id(a)))])
    /\ [](invocations <= MaxAttempts)
    /\ [][routeIdx' # routeIdx => routeIdx' = routeIdx + 1 /\ invocations' = 0]_vars

\* relation 1 is listed as a train route first and as an angkot route last: it
\* is processed at the first place of the list, as the angkot route
C30_Witness ==
    /\ mpc = "run" /\ rpc = "angkotWays"
    /\ routeIdx = 1
    /\ CurrentRoute.relationId = "1" /\ CurrentRoute.name = "Angkot 01"
    /\ AllRoutes(routesFile.data)[1].mode = "train"
    /\ Len(uniqueRoutes) = 5 /\ Len(AllRoutes(routesFile.data)) = 6

----------------------------------------------------------------------------
(* Claims about processAngkotStops *)

SynthDone == spc = "done"

\* closer than MIN_SPACING (250 m)
TooClose(a, b) ==
    QLt(haversineDistanceSq(a.coordinates, b.coordinates), QInt(MIN_DISTANCE * MIN_DISTANCE))

\* C1: in the returned list no two consecutive stops are closer than
\* MIN_SPACING unless both are real; so also for a virtual stop followed by a
\* real one.
C1_MinSpacing ==
    SynthDone =>
        \A k \in 1..(Len(finalStops) - 1) :
            TooClose(finalStops[k], finalStops[k + 1]) =>
                (finalStops[k].isReal /\ finalStops[k + 1].isReal)

\* a virtual stop is followed by a real one, two real stops closer than
\* MIN_SPACING are both kept, and the cleanup removed a stop
C1_Witness ==
    /\ SynthDone
    /\ Len(finalStops) < Len(projectedStops)
    /\ \E k \in 1..(Len(finalStops) - 1) :
           ~finalStops[k].isReal /\ finalStops[k + 1].isReal
    /\ \E k \in 1..(Len(finalStops) - 1) :
           /\ TooClose(finalStops[k], finalStops[k + 1])
           /\ finalStops[k].coordinates # finalStops[k + 1].coordinates

Count(seq, x) == Cardinality({k \in 1..Len(seq) : seq[k] = x})

\* the stop a node of getOrderedStops is to become
Unchanged(node) ==
    [coordinates |-> <<node.lon, node.lat>>,
     id |-> ToString(node.id),
     name |-> IF "name" \in DOMAIN node.tags THEN node.tags.name ELSE "Unknown",
     role |-> node.role,
     isReal |-> TRUE,
     mode |-> "bus"]

\* C2: every real stop is in the output as many times as in the input, with
\* its coordinates, id, name and role and isReal = true; the output holds no
\* other real stop.
C2_RealStopsKept ==
    SynthDone =>
        /\ \A k \in 1..Len(realStopNodes) :
               Count(finalStops, Unchanged(realStopNodes[k]))
                   = Count(realStopNodes, realStopNodes[k])
        /\ Cardinality({k \in 1..Len(finalStops) : finalStops[k].isReal}) = Len(realStopNodes)

\* a real stop closer than MIN_SPACING to the stop kept before it, a repeated
\* real stop, and a virtual stop removed by the cleanup
C2_Witness ==
    /\ SynthDone
    /\ Len(finalStops) < Len(projectedStops)
    /\ \E k \in 1..(Len(finalStops) - 1) :
           /\ finalStops[k + 1].isReal
           /\ TooClose(finalStops[k], finalStops[k + 1])
    /\ \E k \in 1..Len(realStopNodes) : Count(realStopNodes, realStopNodes[k]) = 2

IsVirtual(stops) == {k \in 1..Len(stops) : ~stops[k].isReal}

\* the square of the distance between two stops, in units of (250 m)^2
StopDistanceSq(a, b) == haversineDistanceSq(a.coordinates, b.coordinates)

\* real stops at the two ends of the straight route of 5000 m, which has 11
\* vertices: fractional positions 0 and 10
Scenario5000 ==
    /\ Len(ways) = 1 /\ ways[1].id = 61
    /\ Len(realStopNodes) = 2
    /\ realStopNodes[1].id = 101 /\ realStopNodes[2].id = 107

\* C11 (as claimed): with real stops at fractional positions 0 and 10 of a
\* straight route of 5000 m, the output has exactly 4 virtual stops, each stop
\* 1000 m from the next, none closer than 250 m to a real stop
C11_Claim ==
    SynthDone /\ Scenario5000 =>
        /\ Cardinality(IsVirtual(finalStops)) = 4
        /\ \A k \in 1..(Len(finalStops) - 1) :
               StopDistanceSq(finalStops[k], finalStops[k + 1]) =
                   QInt(MAX_DISTANCE * MAX_DISTANCE)
        /\ \A k \in IsVirtual(finalStops) : \A r \in 1..Len(realStops) :
               ~TooClose(finalStops[k], realStops[r])

\* C12: with no real stop or a single one, nothing is interpolated and the
\* output is exactly the real stops given (none, or that one), whatever the
\* route
C12_NoPairNoInterpolation ==
    /\ [](Len(realStopNodes) <= 1 => virtualStops = <<>>)
    /\ [](SynthDone /\ Len(realStopNodes) <= 1 =>
              finalStops = [k \in 1..Len(realStopNodes) |-> Unchanged(realStopNodes[k])])

\* a single real stop 5000 m from the start of the route came back alone
C12_Witness ==
    /\ SynthDone
    /\ ways[1].id = 61
    /\ Len(realStopNodes) = 1
    /\ realStopNodes[1].id = 107
    /\ Len(finalStops) = 1

\* a route of one segment shorter than MAX_SPACING (1000 m)
ShortRoute ==
    /\ Len(fullCoords) = 2
    /\ QLt(haversineDistanceSq(fullCoords[1], fullCoords[2]), QInt(MAX_DISTANCE * MAX_DISTANCE))

\* C13 (as claimed): on a route shorter than MAX_SPACING end to end the output
\* has no virtual stop, wherever the real stops lie
C13_Claim == SynthDone /\ ShortRoute => IsVirtual(finalStops) = {}

IsReal(stops) == {k \in 1..Len(stops) : stops[k].isReal}

\* C14 (as claimed): with at least two real stops, two consecutive stops of
\* the output from the first real stop to the last are at most MAX_SPACING
\* (1000 m) apart
C14_Claim ==
    SynthDone /\ Len(realStopNodes) >= 2 =>
        \A k \in 1..(Len(finalStops) - 1) :
            (\E a \in IsReal(finalStops) : a <= k) /\ (\E b \in IsReal(finalStops) : k + 1 <= b) =>
                QLe(StopDistanceSq(finalStops[k], finalStops[k + 1]),
                    QInt(MAX_DISTANCE * MAX_DISTANCE))

\* the fractional index of a stop on the stitched route
FractionalIndex(stop) == projectPointToLineString(stop.coordinates, fullCoords).fractionalIndex

\* C15: the output is ordered along the route: the fractional index of each
\* stop is greater than or equal to that of the stop before it
C15_Monotone ==
    SynthDone =>
        \A k \in 1..(Len(finalStops) - 1) :
            QLe(FractionalIndex(finalStops[k]), FractionalIndex(finalStops[k + 1]))

\* the real stops came against the direction of the route, with virtual
\* stops generated between them
C15_Witness ==
    /\ SynthDone
    /\ Len(realStops) >= 2
    /\ QLt(FractionalIndex(realStops[2]), FractionalIndex(realStops[1]))
    /\ IsVirtual(finalStops) # {}

RealOnly(stops) ==
    LET Real(s) == s.isReal IN SelectSeq(stops, Real)

\* C21 as stated: the real stops keep their relation member order; of two
\* real stops the one that is the earlier member is the earlier in the
\* output, also on a route that doubles back.
C21_Claim ==
    SynthDone =>
        RealOnly(finalStops) = [k \in 1..Len(realStopNodes) |-> Unchanged(realStopNodes[k])]

\* the real stops by route position: ascending projected fractional index
ByPosition(stops, coords) ==
    LET sorted == SortByProjection([k \in 1..Len(stops) |-> WithProjection(stops[k], coords)])
    IN  [k \in 1..Len(sorted) |-> sorted[k].stop]

Elements(seq) == {seq[k] : k \in 1..Len(seq)}

\* the candidates of the pairs that are consecutive by route position
PositionPairCandidates ==
    LET sorted == ByPosition(realStops, fullCoords)
    IN  UNION {Elements(generateBetweenStops(sorted[k], sorted[k + 1], realStops,
                                             fullCoords, coordToName)) :
                   k \in 1..(Len(sorted) - 1)}

\* C22 as stated: the virtual-stop candidates are those of the pairs of real
\* stops that are consecutive by route position, also for real stops given in
\* an order that is not their order along the route.
C22_Claim ==
    SynthDone => Elements(virtualStops) = PositionPairCandidates

\* floor(d / MAX_SPACING) for the distance d of two stops: the n with
\* n * MAX_SPACING <= d < (n + 1) * MAX_SPACING
TargetCount(a, b) ==
    LET dSq == StopDistanceSq(a, b)
        maxSq == MAX_DISTANCE * MAX_DISTANCE
    IN  CHOOSE n \in 0..(QFloor(dSq) \div maxSq) :
            /\ QLe(QInt(n * n * maxSq), dSq)
            /\ QLt(dSq, QInt((n + 1) * (n + 1) * maxSq))

\* the fractional indices s + i * (e - s) / (n + 1), i = 1..n, of the targets
\* between two stops; none when the stops are at most MAX_SPACING apart
Targets(a, b) ==
    LET s == projectPointToLineString(a.coordinates, fullCoords).fractionalIndex
        e == projectPointToLineString(b.coordinates, fullCoords).fractionalIndex
        n == TargetCount(a, b)
    IN  IF QLe(StopDistanceSq(a, b), QInt(MAX_DISTANCE * MAX_DISTANCE)) THEN <<>>
        ELSE [j \in 1..n |-> QAdd(s, QDiv(QMul(QInt(j), QSub(e, s)), QInt(n + 1)))]

\* the route vertex (counted from 0) a fractional index lies at or after
VertexBelow(idx) ==
    CHOOSE f \in -1..Len(fullCoords) : QLe(QInt(f), idx) /\ QLt(idx, QInt(f + 1))

\* a target with no route segment to be resolved on
Skipped(idx) == VertexBelow(idx) < 0 \/ VertexBelow(idx) >= Len(fullCoords) - 1

\* the point of the route at a fractional index, by linear interpolation
\* between the vertices floor(idx) and floor(idx) + 1
Resolved(idx) ==
    LET f == VertexBelow(idx)
        t == QSub(idx, QInt(f))
        c1 == fullCoords[f + 1]
        c2 == fullCoords[f + 2]
    IN  <<QAdd(QMul(QSub(QInt(1), t), c1[1]), QMul(t, c2[1])),
          QAdd(QMul(QSub(QInt(1), t), c1[2]), QMul(t, c2[2]))>>

\* closer than MIN_SPACING to a real stop
CrowdsRealStop(coord) ==
    \E r \in 1..Len(realStops) : TooClose([coordinates |-> coord], realStops[r])

\* the coordinates of the candidates of a pair: its targets in order, without
\* the skipped ones and those that crowd a real stop
CandidateCoords(a, b) ==
    LET Kept(idx) == ~Skipped(idx) /\ ~CrowdsRealStop(Resolved(idx))
        kept == SelectSeq(Targets(a, b), Kept)
    IN  [k \in 1..Len(kept) |-> Resolved(kept[k])]

\* the coordinates of the candidates of the first n pairs of real stops
RECURSIVE CandidatesUpTo(_)
CandidatesUpTo(n) ==
    IF n = 0 THEN <<>>
    ELSE CandidatesUpTo(n - 1) \o CandidateCoords(realStops[n], realStops[n + 1])

\* C23: for a pair of real stops at distance d with projected positions s and
\* e, generateBetweenStops makes no candidate when d <= MAX_SPACING, and
\* otherwise takes the n = floor(d / MAX_SPACING) targets at s + i*(e-s)/(n+1),
\* i = 1..n, each resolved by linear interpolation between the route vertices
\* floor(idx) and floor(idx) + 1; a target whose floor(idx) is below 0 or at
\* least routeLength - 1 is skipped.  (The candidates are the resolved targets
\* that do not crowd a real stop.)
C23_Targets ==
    spc = "generate" =>
        [k \in 1..Len(virtualStops) |-> virtualStops[k].coordinates] = CandidatesUpTo(genIdx)

\* a pair made candidates and another pair had its targets skipped at the end
\* of the route
C23_Witness ==
    /\ spc = "generate" /\ genIdx = 2
    /\ Len(virtualStops) > 0
    /\ \E k \in 1..2 : \E j \in 1..Len(Targets(realStops[k], realStops[k + 1])) :
           Skipped(Targets(realStops[k], realStops[k + 1])[j])

\* C24: every virtual stop of the output is at least MIN_SPACING (250 m) away
\* from every real stop of the route, not only from the two real stops it was
\* interpolated between and not only from its neighbours in the output.
C24_ClearOfEveryRealStop ==
    SynthDone =>
        \A k \in IsVirtual(finalStops) : \A r \in 1..Len(realStops) :
            ~TooClose(finalStops[k], realStops[r])

\* the output has a virtual stop, and a target of a pair of real stops was
\* dropped for crowding a real stop that is not of the pair
C24_Witness ==
    /\ SynthDone
    /\ IsVirtual(finalStops) # {}
    /\ \E k \in 1..(Len(realStops) - 1) :
           LET targets == Targets(realStops[k], realStops[k + 1])
           IN  \E j \in 1..Len(targets) :
                   /\ ~Skipped(targets[j])
                   /\ ~TooClose([coordinates |-> Resolved(targets[j])], realStops[k])
                   /\ ~TooClose([coordinates |-> Resolved(targets[j])], realStops[k + 1])
                   /\ CrowdsRealStop(Resolved(targets[j]))

----------------------------------------------------------------------------
(* Claims about projectPointToLineString *)

\* the loop is over: what the function returns
ProjectDone == projPoint # Null /\ segIdx = Len(fullCoords) - 1

ReturnedFractionalIndex == QAdd(QInt(minIndex), minT)

\* 0-based indices of the vertices of the line at the projected point
VerticesAtPoint == {v \in 0..(Len(fullCoords) - 1) : fullCoords[v + 1] = projPoint}

\* the point of segment k (0-based) at parameter t
PointOnSegment(k, t) ==
    <<QAdd(fullCoords[k + 1][1], QMul(t, QSub(fullCoords[k + 2][1], fullCoords[k + 1][1]))),
      QAdd(fullCoords[k + 1][2], QMul(t, QSub(fullCoords[k + 2][2], fullCoords[k + 1][2])))>>

\* the square of the least distance from the projected point to segment k
SegmentDistSq(k) ==
    ProjectIter([minDist |-> Infinity, minIndex |-> -1, minT |-> QInt(0)],
                projPoint, fullCoords, k).minDist

\* the line is at the coordinate of vertex v before it reaches vertex v
PassesBefore(v) ==
    \/ \E k \in 0..(v - 2) : SegmentDistSq(k) = QInt(0)
    \/ v >= 1 /\ fullCoords[v] = fullCoords[v + 1]

\* C17 (as claimed): projecting the coordinate of vertex i of a line gives
\* distance 0 and fractional index exactly i, also on lines that come back to
\* a coordinate and lines with segments of length zero
C17_Claim ==
    ProjectDone =>
        \A v \in VerticesAtPoint :
            minDist = QInt(0) /\ ReturnedFractionalIndex = QInt(v)

\* C17 (amended): projecting the coordinate of vertex i gives distance 0 and
\* a fractional index of at most i; it is exactly i when the line is not at
\* that coordinate before vertex i
C17_FirstPassOfVertex ==
    ProjectDone =>
        \A v \in VerticesAtPoint :
            /\ minDist = QInt(0)
            /\ QLe(ReturnedFractionalIndex, QInt(v))
            /\ ~PassesBefore(v) => ReturnedFractionalIndex = QInt(v)

\* the point is the first and the third vertex of a line that leaves it and
\* comes back
C17_Witness ==
    /\ ProjectDone
    /\ Len(fullCoords) = 3
    /\ VerticesAtPoint = {0, 2}
    /\ ReturnedFractionalIndex = QInt(0)

\* parameters at which the segments are sampled
SampleTs == {Q(n, 6) : n \in 0..6}

\* C18: the result is a segment index and a t in [0, 1] whose point is at the
\* returned distance, no point of any segment is closer, no segment of lower
\* index is as close, and the best segment changes only for a strictly closer
\* one
C18_FirstNearestSegment ==
    /\ [](ProjectDone =>
              /\ minIndex \in 0..(Len(fullCoords) - 2)
              /\ QLe(QInt(0), minT) /\ QLe(minT, QInt(1))
              /\ minDist = haversineDistanceSq(projPoint, PointOnSegment(minIndex, minT))
              /\ \A k \in 0..(Len(fullCoords) - 2) :
                     /\ QLe(minDist, SegmentDistSq(k))
                     /\ \A t \in SampleTs :
                            QLe(minDist, haversineDistanceSq(projPoint, PointOnSegment(k, t)))
                     /\ k < minIndex => QLt(minDist, SegmentDistSq(k)))
    /\ [][minIndex' # minIndex \/ minT' # minT => QLt(minDist', minDist)]_vars

\* two segments are at the least distance, the first of them of length zero
C18_Witness ==
    /\ ProjectDone
    /\ fullCoords[minIndex + 1] = fullCoords[minIndex + 2]
    /\ \E k \in (minIndex + 1)..(Len(fullCoords) - 2) : SegmentDistSq(k) = minDist
    /\ minDist # QInt(0)

----------------------------------------------------------------------------
(* Claims about orderWays *)

OrderDone == opc = "done"

\* the number of coordinates of a path that goes along every way once
RECURSIVE PathLength(_)
PathLength(ws) ==
    IF Len(ws) = 0 THEN 1
    ELSE PathLength(Tail(ws)) + Len(ws[1].geometry) - 1

\* C26 as stated: whenever the ways given to orderWays form one connected
\* simple chain, the path returned goes along every way exactly once, whatever
\* the direction the first way is drawn in and wherever it is in the chain.
C26_Claim ==
    OrderDone =>
        /\ usedWays = {ways[k].id : k \in 1..Len(ways)}
        /\ Len(path) = PathLength(ways)

----------------------------------------------------------------------------
(* Claims about stitchWays *)

StitchDone == i = Len(ways)

RECURSIVE SumLen(_)
SumLen(ws) == IF Len(ws) = 0 THEN 0 ELSE Len(ws[1].geometry) + SumLen(Tail(ws))

\* the coordinates of way k (1-based) of the input, oriented by o[k]
Oriented(ws, o, k) ==
    IF o[k] THEN GeometryCoords(ws[k]) ELSE Reverse(GeometryCoords(ws[k]))

\* the ways form a chain in member order: there is an orientation of every way
\* in which each way ends on the node the next one starts from
Chainable(ws) ==
    \E o \in [1..Len(ws) -> BOOLEAN] :
        \A k \in 1..(Len(ws) - 1) :
            Last(Oriented(ws, o, k)) = Oriented(ws, o, k + 1)[1]

\* C3 (as claimed): for ways in member order, each sharing an endpoint with the
\* next, whatever their orientation, stitchWays returns
\* sum(lengths) - (count - 1) coordinates and warns about nothing.
C3_Claim ==
    (StitchDone /\ Chainable(ways)) =>
        /\ Len(stitched) = SumLen(ways) - (Len(ways) - 1)
        /\ warnings = <<>>

\* ways with the geometry of way k (1-based) reversed
ReverseAt(ws, k) == [ws EXCEPT ![k].geometry = Reverse(@)]

\* the last accumulated coordinate when stitchWays reaches way k (1-based)
LastCoordBefore(ws, k) == StitchFrom(StitchStart, SubSeq(ws, 1, k - 1), 0).lastCoord

ExactlyOneEndMatches(ws, k) ==
    LET cs == GeometryCoords(ws[k])
        lc == LastCoordBefore(ws, k)
    IN  lc # Null /\ (areCoordsEqual(cs[1], lc) # areCoordsEqual(Last(cs), lc))

\* C4 (as claimed): reversing any way other than the first in the input leaves
\* the stitched sequence unchanged.
C4_Claim ==
    StitchDone =>
        \A k \in 2..Len(ways) : stitchWays(ReverseAt(ways, k)) = stitched

\* C4 (amended): reversing a way other than the first, exactly one of whose
\* endpoints matches the last accumulated coordinate, leaves the stitched
\* sequence unchanged.
C4_OrientationInvariant ==
    StitchDone =>
        \A k \in 2..Len(ways) :
            ExactlyOneEndMatches(ways, k) => stitchWays(ReverseAt(ways, k)) = stitched

C4_Witness ==
    /\ StitchDone
    /\ Len(ways) = 3
    /\ ExactlyOneEndMatches(ways, 2)
    /\ 1 \in reversals
    /\ stitchWays(ReverseAt(ways, 2)) = stitched

\* |a - b| < 1e-6 degrees on both axes, stated on the numbers
Near(a, b) ==
    /\ Abs(a[1][1] * b[1][2] - b[1][1] * a[1][2]) * TolInv < a[1][2] * b[1][2]
    /\ Abs(a[2][1] * b[2][2] - b[2][1] * a[2][2]) * TolInv < a[2][2] * b[2][2]

ScenarioAB ==
    MkWays(<<Geometry(<<Pt(0, 0), Pt(1, 0)>>), Geometry(<<Pt(2, 0), Pt(1, 0)>>)>>)

\* C5: the first way is appended as it is; a later way is reversed before it is
\* appended exactly when its last coordinate is within 1e-6 of the last
\* accumulated coordinate on both axes and its first coordinate is not; and
\* stitch([A, B]) with A = [(0,0),(1,0)], B = [(2,0),(1,0)] is
\* [(0,0),(1,0),(2,0)].
C5_ReverseRule ==
    /\ [][StitchStep =>
            LET cs == GeometryCoords(ways[i + 1])
                rev == Near(Last(cs), lastCoord) /\ ~Near(cs[1], lastCoord)
            IN  /\ (i = 0) => stitched' = cs
                /\ (i > 0 /\ rev) => stitched' = stitched \o Tail(Reverse(cs))
                /\ (i > 0 /\ ~rev) => stitched' = stitched \o Tail(cs)
                /\ ((i \in reversals') <=> (i > 0 /\ rev))]_vars
    /\ []((StitchDone /\ ways = ScenarioAB) => stitched = <<Pt(0, 0), Pt(1, 0), Pt(2, 0)>>)

C5_Witness ==
    /\ StitchDone
    /\ ways = ScenarioAB
    /\ reversals = {1}

\* no way of the input has two equal adjacent coordinates
NoEqualAdjacent(cs) == \A k \in 1..(Len(cs) - 1) : cs[k] # cs[k + 1]

\* C6 (as claimed): for ways without equal adjacent coordinates the stitched
\* sequence has no two equal adjacent coordinates.
C6_Claim ==
    (StitchDone /\ \A k \in 1..Len(ways) : NoEqualAdjacent(GeometryCoords(ways[k])))
        => NoEqualAdjacent(stitched)

\* C7: a way after the first is warned about if and only if neither of its
\* endpoints matches the last accumulated coordinate; it is then appended
\* without being reversed, and the loop goes on with the next way.
C7_ContinuityWarning ==
    /\ [][StitchStep =>
            LET cs == GeometryCoords(ways[i + 1])
                neither == i > 0 /\ ~Near(cs[1], lastCoord) /\ ~Near(Last(cs), lastCoord)
            IN  /\ neither => warnings' = Append(warnings, i)
                /\ ~neither => warnings' = warnings
                /\ neither => (stitched' = stitched \o Tail(cs) /\ i \notin reversals')
                /\ i' = i + 1 /\ ways' = ways]_vars
    /\ [](Len(warnings) > 0 => i > Last(warnings))

C7_Witness ==
    /\ StitchDone
    /\ Len(ways) = 3
    /\ warnings = <<1>>
    /\ 2 \in reversals

\* C27 as stated: stitchWays loses no distinct coordinate; the point dropped
\* from a fragment that is not the first is a duplicate, within the tolerance,
\* of the coordinate at the end of the output so far, so every coordinate of
\* every input fragment is in the stitched route, also when a fragment
\* connects at neither end.
C27_Claim ==
    StitchDone =>
        \A k \in 1..Len(ways) : \A n \in 1..Len(ways[k].geometry) :
            \E j \in 1..Len(stitched) :
                areCoordsEqual(GeometryCoords(ways[k])[n], stitched[j])

====
